---------------------------- MODULE Spec2Model ----------------------------
(***************************************************************************)
(* A model of the 7x7 Hnefatafl bitboard rule engine of the MCTS bot       *)
(* plugin (plugins/mcts_bot_plugin/src/hnefatafl.rs, zobrist.rs).          *)
(*                                                                         *)
(* Representation.                                                         *)
(*  - A u64 bitboard is the set of its set bit indices (0..48); `1 << i`   *)
(*    is {i}, `a ^ b` is the symmetric difference, `a & !m` is a \ m, and  *)
(*    the numeric order of two bitboards is decided by their highest       *)
(*    differing bit.                                                       *)
(*  - The Zobrist keys are 64-bit values drawn from a seeded generator.    *)
(*    A hash is modelled by the set of indices of the keys whose XOR it    *)
(*    is: `h ^= key` toggles the key's index in the set.  Two hashes that  *)
(*    are equal as sets are equal as u64 values for every key table.       *)
(*  - Option<T> is a set with at most one element.                         *)
(*  - A move [sr, sc, er, ec] is the tuple <<sr, sc, er, ec>>.             *)
(***************************************************************************)
EXTENDS Integers, Sequences, FiniteSets, TLC

\* ------------------------------------------------------------------------
\* Constants of the program
\* ------------------------------------------------------------------------
MAX_GAME_LENGTH == 512

BOARD_SIZE == 7

TOTAL_SQUARES == BOARD_SIZE * BOARD_SIZE

PIECE_TYPES == 4

CORNERS == {0, 6, 42, 48}

THRONE == {24}

RESTRICTED == CORNERS \cup THRONE

\* ------------------------------------------------------------------------
\* Bit operations on bitboards and hashes
\* ------------------------------------------------------------------------
\* a ^ b
BitXor(a, b) == (a \ b) \cup (b \ a)

SetMax(S) == CHOOSE x \in S : \A y \in S : y <= x

SetMin(S) == CHOOSE x \in S : \A y \in S : x <= y

\* u64::cmp(a, b) = Less
BitLess(a, b) == a # b /\ SetMax(BitXor(a, b)) \in b

\* u64::trailing_zeros
trailing_zeros(x) == IF x = {} THEN 64 ELSE SetMin(x)

\* u64::count_ones
count_ones(x) == Cardinality(x)

\* ------------------------------------------------------------------------
\* Zobrist table (zobrist.rs)
\* ------------------------------------------------------------------------
\* index of the key table[r][c][p]
z_table(r, c, p) == ((r * BOARD_SIZE) + c) * PIECE_TYPES + p

\* index of the key black_to_move, generated after the whole table
black_to_move == TOTAL_SQUARES * PIECE_TYPES

\* h ^= key
HashXor(h, key) == IF key \in h THEN h \ {key} ELSE h \cup {key}

\* ------------------------------------------------------------------------
\* GameState helpers
\* ------------------------------------------------------------------------
idx(r, c) == r * 7 + c

Row(i) == i \div 7

Col(i) == i % 7

\* North, South, West, East, in the order the vector is filled.
get_orthogonal_neighbors(i) ==
    (IF Row(i) > 0 THEN <<i - 7>> ELSE <<>>) \o
    (IF Row(i) < 6 THEN <<i + 7>> ELSE <<>>) \o
    (IF Col(i) > 0 THEN <<i - 1>> ELSE <<>>) \o
    (IF Col(i) < 6 THEN <<i + 1>> ELSE <<>>)

SeqRange(q) == {q[n] : n \in 1..Len(q)}

KingHostile(black, n) == n \in black \/ n \in CORNERS

\* Mutant: the king on the throne falls to three attackers.
check_king_captured_sim_ThreeOnThrone(black, king) ==
    LET k_idx == trailing_zeros(king)
        neighbors == get_orthogonal_neighbors(k_idx)
        r == Row(k_idx)
        c == Col(k_idx)
    IN  IF k_idx >= 64 THEN FALSE
        ELSE IF k_idx = 24
             THEN Cardinality(SeqRange(neighbors) \cap black) >= 3
        ELSE IF k_idx \in {23, 25, 17, 31}
             THEN \A n \in SeqRange(neighbors) : n = 24 \/ n \in black
        ELSE \/ /\ c > 0 /\ c < 6
                /\ KingHostile(black, k_idx - 1)
                /\ KingHostile(black, k_idx + 1)
             \/ /\ r > 0 /\ r < 6
                /\ KingHostile(black, k_idx - 7)
                /\ KingHostile(black, k_idx + 7)

check_king_captured_sim(black, king) ==
    LET k_idx == trailing_zeros(king)
        neighbors == get_orthogonal_neighbors(k_idx)
        r == Row(k_idx)
        c == Col(k_idx)
    IN  IF k_idx >= 64 THEN FALSE
        ELSE IF k_idx = 24
             THEN IF Len(neighbors) < 4 THEN FALSE
                  ELSE \A n \in SeqRange(neighbors) : n \in black
        ELSE IF k_idx \in {23, 25, 17, 31}
             THEN \A n \in SeqRange(neighbors) : n = 24 \/ n \in black
        ELSE \/ /\ c > 0 /\ c < 6
                /\ KingHostile(black, k_idx - 1)
                /\ KingHostile(black, k_idx + 1)
             \/ /\ r > 0 /\ r < 6
                /\ KingHostile(black, k_idx - 7)
                /\ KingHostile(black, k_idx + 7)

Abs(x) == IF x < 0 THEN 0 - x ELSE x

\* Option<usize>: {} is None, {a} is Some(a)
get_anvil_index(src, victim) ==
    LET diff  == victim - src
        anvil == victim + diff
    IN  IF anvil < 0 \/ anvil >= 49 THEN {}
        ELSE IF Abs(diff) = 1 /\ Abs((victim % 7) - (anvil % 7)) # 1 THEN {}
        ELSE {anvil}

\* Mutant: the throne is hostile to a defender also while the king is on it.
is_hostile_sim_ThroneAlways(i, victim_is_black, b, w, k) ==
    IF victim_is_black
    THEN \/ i \in w \/ i \in k
         \/ i \in CORNERS
         \/ i \in THRONE
    ELSE \/ i \in b
         \/ i \in CORNERS
         \/ i \in THRONE

is_hostile_sim(i, victim_is_black, b, w, k) ==
    IF victim_is_black
    THEN \/ i \in w \/ i \in k
         \/ i \in CORNERS
         \/ i \in THRONE
    ELSE \/ i \in b
         \/ i \in CORNERS
         \/ (i \in THRONE /\ i \notin k)


\* ------------------------------------------------------------------------
\* GameState::new
\* ------------------------------------------------------------------------
InitialBlack == {idx(0, 3), idx(1, 3), idx(3, 0), idx(3, 1),
                 idx(3, 5), idx(3, 6), idx(5, 3), idx(6, 3)}

InitialWhite == {idx(2, 3), idx(3, 2), idx(3, 4), idx(4, 3)}

InitialKing == {idx(3, 3)}

\* The loop `for i in 0..49` of new(), from square i on, applied to h.
RECURSIVE InitialHash(_, _)
InitialHash(i, h) ==
    IF i >= 49 THEN h
    ELSE LET r  == i \div 7
             c  == i % 7
             h0 == IF i \in InitialBlack THEN HashXor(h, z_table(r, c, 0)) ELSE h
             h1 == IF i \in InitialWhite THEN HashXor(h0, z_table(r, c, 1)) ELSE h0
             h2 == IF i \in InitialKing THEN HashXor(h1, z_table(r, c, 2)) ELSE h1
         IN  InitialHash(i + 1, h2)

\* history[0..history_len] is the sequence `history`; history_len is its
\* length.  An entry is <<black, white, king, ply>>.
new ==
    [black_pieces    |-> InitialBlack,
     white_pieces    |-> InitialWhite,
     king_piece      |-> InitialKing,
     player          |-> "B",
     hash            |-> HashXor(InitialHash(0, {}), black_to_move),
     ply_count       |-> 0,
     history         |-> << <<InitialBlack, InitialWhite, InitialKing, 0>> >>,
     repetition      |-> FALSE,
     repetition_dist |-> {}]

history_len(s) == Len(s.history)

\* ------------------------------------------------------------------------
\* Captures
\* ------------------------------------------------------------------------
\* Mutant: a captured king is taken off the board but his key stays in the hash.
CaptureStep_KeepsKingKey(s, dst_idx, mover_type, v_idx) ==
    LET is_b == v_idx \in s.black_pieces
        is_w == v_idx \in s.white_pieces
        is_k == v_idx \in s.king_piece
        is_enemy == IF mover_type = 0 THEN is_w \/ is_k ELSE is_b
        anvil == get_anvil_index(dst_idx, v_idx)
    IN  IF ~is_b /\ ~is_w /\ ~is_k THEN s
        ELSE IF ~is_enemy THEN s
        ELSE IF is_k
             THEN IF check_king_captured_sim(s.black_pieces, s.king_piece)
                  THEN [s EXCEPT !.king_piece = @ \ {v_idx}]
                  ELSE s
        ELSE IF anvil = {} THEN s
        ELSE IF \E anvil_idx \in anvil :
                    is_hostile_sim(anvil_idx, is_b, s.black_pieces,
                                   s.white_pieces, s.king_piece)
             THEN IF is_b
                  THEN [s EXCEPT !.black_pieces = @ \ {v_idx},
                                 !.hash = HashXor(@, z_table(v_idx \div 7, v_idx % 7, 0))]
                  ELSE [s EXCEPT !.white_pieces = @ \ {v_idx},
                                 !.hash = HashXor(@, z_table(v_idx \div 7, v_idx % 7, 1))]
        ELSE s

\* Mutant: the neighbour is not tested for being an enemy of the mover.
CaptureStep_NoEnemyTest(s, dst_idx, mover_type, v_idx) ==
    LET is_b == v_idx \in s.black_pieces
        is_w == v_idx \in s.white_pieces
        is_k == v_idx \in s.king_piece
        anvil == get_anvil_index(dst_idx, v_idx)
    IN  IF ~is_b /\ ~is_w /\ ~is_k THEN s
        ELSE IF is_k
             THEN IF check_king_captured_sim(s.black_pieces, s.king_piece)
                  THEN [s EXCEPT !.king_piece = @ \ {v_idx},
                                 !.hash = HashXor(@, z_table(v_idx \div 7, v_idx % 7, 2))]
                  ELSE s
        ELSE IF anvil = {} THEN s
        ELSE IF \E anvil_idx \in anvil :
                    is_hostile_sim(anvil_idx, is_b, s.black_pieces,
                                   s.white_pieces, s.king_piece)
             THEN IF is_b
                  THEN [s EXCEPT !.black_pieces = @ \ {v_idx},
                                 !.hash = HashXor(@, z_table(v_idx \div 7, v_idx % 7, 0))]
                  ELSE [s EXCEPT !.white_pieces = @ \ {v_idx},
                                 !.hash = HashXor(@, z_table(v_idx \div 7, v_idx % 7, 1))]
        ELSE s

\* One iteration of the loop of apply_captures_bits, for the neighbour v_idx.
CaptureStep(s, dst_idx, mover_type, v_idx) ==
    LET is_b == v_idx \in s.black_pieces
        is_w == v_idx \in s.white_pieces
        is_k == v_idx \in s.king_piece
        is_enemy == IF mover_type = 0 THEN is_w \/ is_k ELSE is_b
        anvil == get_anvil_index(dst_idx, v_idx)
    IN  IF ~is_b /\ ~is_w /\ ~is_k THEN s
        ELSE IF ~is_enemy THEN s
        ELSE IF is_k
             THEN IF check_king_captured_sim(s.black_pieces, s.king_piece)
                  THEN [s EXCEPT !.king_piece = @ \ {v_idx},
                                 !.hash = HashXor(@, z_table(v_idx \div 7, v_idx % 7, 2))]
                  ELSE s
        ELSE IF anvil = {} THEN s
        ELSE IF \E anvil_idx \in anvil :
                    is_hostile_sim(anvil_idx, is_b, s.black_pieces,
                                   s.white_pieces, s.king_piece)
             THEN IF is_b
                  THEN [s EXCEPT !.black_pieces = @ \ {v_idx},
                                 !.hash = HashXor(@, z_table(v_idx \div 7, v_idx % 7, 0))]
                  ELSE [s EXCEPT !.white_pieces = @ \ {v_idx},
                                 !.hash = HashXor(@, z_table(v_idx \div 7, v_idx % 7, 1))]
        ELSE s

RECURSIVE CaptureLoop(_, _, _, _, _)
CaptureLoop(s, dst_idx, mover_type, neighbors, n) ==
    IF n > Len(neighbors) THEN s
    ELSE CaptureLoop(CaptureStep(s, dst_idx, mover_type, neighbors[n]),
                     dst_idx, mover_type, neighbors, n + 1)

apply_captures_bits(s, r, c, mover_type) ==
    LET dst_idx == idx(r, c)
    IN  CaptureLoop(s, dst_idx, mover_type, get_orthogonal_neighbors(dst_idx), 1)

\* ------------------------------------------------------------------------
\* History (sorted by black, then white, then king bitboard)
\* ------------------------------------------------------------------------
\* entry.0.cmp(key.0).then(entry.1.cmp(key.1)).then(entry.2.cmp(key.2)) = Less
EntryLess(entry, key) ==
    \/ BitLess(entry[1], key[1])
    \/ entry[1] = key[1] /\ BitLess(entry[2], key[2])
    \/ entry[1] = key[1] /\ entry[2] = key[2] /\ BitLess(entry[3], key[3])

EntryEqual(entry, key) ==
    entry[1] = key[1] /\ entry[2] = key[2] /\ entry[3] = key[3]

\* slice::binary_search_by on a slice sorted by the comparator:
\* [found |-> TRUE, idx |-> position of a match] for Ok(idx),
\* [found |-> FALSE, idx |-> insertion position] for Err(idx); positions from 1.
binary_search_by(slice, key) ==
    LET hits == {n \in 1..Len(slice) : EntryEqual(slice[n], key)}
    IN  IF hits # {}
        THEN [found |-> TRUE, idx |-> CHOOSE n \in hits : TRUE]
        ELSE [found |-> FALSE,
              idx |-> 1 + Cardinality({n \in 1..Len(slice) : EntryLess(slice[n], key)})]

\* binary_search_by(..).is_ok()
binary_search_is_ok(slice, key) ==
    \E n \in 1..Len(slice) : EntryEqual(slice[n], key)

\* ------------------------------------------------------------------------
\* GameState::move_piece
\* ------------------------------------------------------------------------
\* The piece type on the origin: 0 attacker, 1 defender, 2 king; 0 (the
\* initial value of p_idx) when the origin is empty.
PieceAt(s, src) ==
    IF src \in s.black_pieces THEN 0
    ELSE IF src \in s.white_pieces THEN 1
    ELSE IF src \in s.king_piece THEN 2
    ELSE 0

\* Mutant: a new configuration is stored behind the last entry, not at its
\* place in the order.
UpdateHistory_Appends(s) ==
    LET key == <<s.black_pieces, s.white_pieces, s.king_piece>>
        res == binary_search_by(s.history, key)
    IN  IF history_len(s) < MAX_GAME_LENGTH
        THEN IF res.found
             THEN [s EXCEPT !.repetition = TRUE,
                            !.repetition_dist = {s.ply_count - s.history[res.idx][4]}]
             ELSE [s EXCEPT !.repetition = FALSE,
                            !.repetition_dist = {},
                            !.history = Append(@, <<s.black_pieces, s.white_pieces,
                                                    s.king_piece, s.ply_count>>)]
        ELSE s

UpdateHistory(s) ==
    LET key == <<s.black_pieces, s.white_pieces, s.king_piece>>
        res == binary_search_by(s.history, key)
    IN  IF history_len(s) < MAX_GAME_LENGTH
        THEN IF res.found
             THEN [s EXCEPT !.repetition = TRUE,
                            !.repetition_dist = {s.ply_count - s.history[res.idx][4]}]
             ELSE [s EXCEPT !.repetition = FALSE,
                            !.repetition_dist = {},
                            !.history = SubSeq(@, 1, res.idx - 1)
                                        \o << <<s.black_pieces, s.white_pieces,
                                                s.king_piece, s.ply_count>> >>
                                        \o SubSeq(@, res.idx, Len(@))]
        ELSE s

move_piece(s, coords) ==
    LET sr == coords[1]
        sc == coords[2]
        er == coords[3]
        ec == coords[4]
        src == idx(sr, sc)
        move_mask == {idx(sr, sc)} \cup {idx(er, ec)}
        p_idx == PieceAt(s, src)
        s1 == [s EXCEPT !.ply_count = @ + 1]
        s2 == IF src \in s.black_pieces
                  THEN [s1 EXCEPT !.black_pieces = BitXor(@, move_mask)]
              ELSE IF src \in s.white_pieces
                  THEN [s1 EXCEPT !.white_pieces = BitXor(@, move_mask)]
              ELSE IF src \in s.king_piece
                  THEN [s1 EXCEPT !.king_piece = BitXor(@, move_mask)]
              ELSE s1
        s3 == [s2 EXCEPT !.hash = HashXor(HashXor(HashXor(@,
                                      z_table(sr, sc, p_idx)),
                                      z_table(er, ec, p_idx)),
                                      black_to_move)]
        s4 == apply_captures_bits(s3, er, ec, p_idx)
        s5 == UpdateHistory(s4)
    IN  [s5 EXCEPT !.player = IF @ = "B" THEN "W" ELSE "B"]

\* ------------------------------------------------------------------------
\* GameState::predict_next_boards
\* ------------------------------------------------------------------------
\* One iteration of the capture loop of predict_next_boards on the simulated
\* boards n = [b, w, k].
PredictStep(n, dst_idx, mover_is_black, victim_idx) ==
    LET is_victim_black == victim_idx \in n.b
        is_victim_white == victim_idx \in n.w
        is_victim_king  == victim_idx \in n.k
        is_enemy == IF mover_is_black THEN is_victim_white \/ is_victim_king
                    ELSE is_victim_black
        anvil == get_anvil_index(dst_idx, victim_idx)
    IN  IF ~is_victim_black /\ ~is_victim_white /\ ~is_victim_king THEN n
        ELSE IF ~is_enemy THEN n
        ELSE IF is_victim_king
             THEN IF check_king_captured_sim(n.b, n.k)
                  THEN [n EXCEPT !.k = @ \ {victim_idx}]
                  ELSE n
        ELSE IF anvil = {} THEN n
        ELSE IF \E anvil_idx \in anvil :
                    is_hostile_sim(anvil_idx, is_victim_black, n.b, n.w, n.k)
             THEN IF is_victim_black
                  THEN [n EXCEPT !.b = @ \ {victim_idx}]
                  ELSE [n EXCEPT !.w = @ \ {victim_idx}]
        ELSE n

RECURSIVE PredictLoop(_, _, _, _, _)
PredictLoop(n, dst_idx, mover_is_black, neighbors, j) ==
    IF j > Len(neighbors) THEN n
    ELSE PredictLoop(PredictStep(n, dst_idx, mover_is_black, neighbors[j]),
                     dst_idx, mover_is_black, neighbors, j + 1)

\* Returns <<next_black, next_white, next_king>>.
predict_next_boards(s, coords) ==
    LET src == idx(coords[1], coords[2])
        dst_idx == idx(coords[3], coords[4])
        move_mask == {src} \cup {dst_idx}
        p_idx == PieceAt(s, src)
        moved == IF src \in s.black_pieces
                     THEN [b |-> BitXor(s.black_pieces, move_mask),
                           w |-> s.white_pieces, k |-> s.king_piece]
                 ELSE IF src \in s.white_pieces
                     THEN [b |-> s.black_pieces,
                           w |-> BitXor(s.white_pieces, move_mask), k |-> s.king_piece]
                 ELSE IF src \in s.king_piece
                     THEN [b |-> s.black_pieces, w |-> s.white_pieces,
                           k |-> BitXor(s.king_piece, move_mask)]
                 ELSE [b |-> s.black_pieces, w |-> s.white_pieces, k |-> s.king_piece]
        n == PredictLoop(moved, dst_idx, p_idx = 0,
                         get_orthogonal_neighbors(dst_idx), 1)
    IN  <<n.b, n.w, n.k>>

\* ------------------------------------------------------------------------
\* GameState::next_hash
\* ------------------------------------------------------------------------
\* One iteration of the neighbour loop of next_hash: the simulated boards are
\* the boards after the move and are not changed by the loop.
NextHashStep(h, sim_black, sim_white, sim_king, mover_is_black, dst_idx, victim_idx) ==
    LET is_victim_black == victim_idx \in sim_black
        is_victim_white == victim_idx \in sim_white
        is_victim_king  == victim_idx \in sim_king
        is_enemy == IF mover_is_black THEN is_victim_white \/ is_victim_king
                    ELSE is_victim_black
        anvil == get_anvil_index(dst_idx, victim_idx)
        v_pidx == IF is_victim_black THEN 0 ELSE 1
    IN  IF ~is_victim_black /\ ~is_victim_white /\ ~is_victim_king THEN h
        ELSE IF ~is_enemy THEN h
        ELSE IF is_victim_king
             THEN IF check_king_captured_sim(sim_black, sim_king)
                  THEN HashXor(h, z_table(victim_idx \div 7, victim_idx % 7, 2))
                  ELSE h
        ELSE IF anvil = {} THEN h
        ELSE IF \E anvil_idx \in anvil :
                    is_hostile_sim(anvil_idx, is_victim_black,
                                   sim_black, sim_white, sim_king)
             THEN HashXor(h, z_table(victim_idx \div 7, victim_idx % 7, v_pidx))
        ELSE h

RECURSIVE NextHashLoop(_, _, _, _, _, _, _, _)
NextHashLoop(h, sim_black, sim_white, sim_king, mover_is_black, dst_idx, neighbors, j) ==
    IF j > Len(neighbors) THEN h
    ELSE NextHashLoop(NextHashStep(h, sim_black, sim_white, sim_king,
                                   mover_is_black, dst_idx, neighbors[j]),
                      sim_black, sim_white, sim_king, mover_is_black, dst_idx,
                      neighbors, j + 1)

\* Mutant: the captures are computed on the boards before the move.
next_hash_BoardsBeforeMove(s, coords) ==
    LET sr == coords[1]
        sc == coords[2]
        er == coords[3]
        ec == coords[4]
        src == idx(sr, sc)
        dst_idx == idx(er, ec)
        p_idx == PieceAt(s, src)
        h == HashXor(HashXor(HashXor(s.hash, z_table(sr, sc, p_idx)),
                             z_table(er, ec, p_idx)), black_to_move)
    IN  IF src \notin s.black_pieces /\ src \notin s.white_pieces
           /\ src \notin s.king_piece
        THEN s.hash
        ELSE NextHashLoop(h, s.black_pieces, s.white_pieces, s.king_piece,
                          p_idx = 0, dst_idx, get_orthogonal_neighbors(dst_idx), 1)

next_hash(s, coords) ==
    LET sr == coords[1]
        sc == coords[2]
        er == coords[3]
        ec == coords[4]
        src == idx(sr, sc)
        dst_idx == idx(er, ec)
        move_mask == {src} \cup {dst_idx}
        p_idx == PieceAt(s, src)
        h == HashXor(HashXor(HashXor(s.hash, z_table(sr, sc, p_idx)),
                             z_table(er, ec, p_idx)), black_to_move)
        sim_black == IF p_idx = 0 THEN BitXor(s.black_pieces, move_mask)
                     ELSE s.black_pieces
        sim_white == IF p_idx = 1 THEN BitXor(s.white_pieces, move_mask)
                     ELSE s.white_pieces
        sim_king  == IF p_idx = 2 THEN BitXor(s.king_piece, move_mask)
                     ELSE s.king_piece
    IN  IF src \notin s.black_pieces /\ src \notin s.white_pieces
           /\ src \notin s.king_piece
        THEN s.hash
        ELSE NextHashLoop(h, sim_black, sim_white, sim_king, p_idx = 0, dst_idx,
                          get_orthogonal_neighbors(dst_idx), 1)

\* ------------------------------------------------------------------------
\* Move generation
\* ------------------------------------------------------------------------
\* Mutant: every piece may land on a restricted square.
is_restricted_violation_Never(s, r, c, src_idx) == FALSE

is_restricted_violation(s, r, c, src_idx) ==
    IF idx(r, c) \notin RESTRICTED THEN FALSE
    ELSE IF src_idx \in s.king_piece THEN FALSE
    ELSE TRUE

\* Mutant: the empty throne stops a slide like an occupied square.
RECURSIVE Slide_ThroneBlocks(_, _, _)
Slide_ThroneBlocks(occupied, j, step) ==
    IF \/ step = 0 - 7 /\ Row(j) = 0
       \/ step = 7 /\ Row(j) = 6
       \/ step = 0 - 1 /\ Col(j) = 0
       \/ step = 1 /\ Col(j) = 6
    THEN <<>>
    ELSE IF (j + step) \in (occupied \cup THRONE) THEN <<>>
    ELSE <<j + step>> \o Slide_ThroneBlocks(occupied, j + step, step)

\* The squares one direction loop visits from square j before its `break`:
\* step -7 is UP, 7 DOWN, -1 LEFT, 1 RIGHT.
RECURSIVE Slide(_, _, _)
Slide(occupied, j, step) ==
    IF \/ step = 0 - 7 /\ Row(j) = 0
       \/ step = 7 /\ Row(j) = 6
       \/ step = 0 - 1 /\ Col(j) = 0
       \/ step = 1 /\ Col(j) = 6
    THEN <<>>
    ELSE IF (j + step) \in occupied THEN <<>>
    ELSE <<j + step>> \o Slide(occupied, j + step, step)

\* The destinations the four direction loops visit for the piece on square i,
\* in the order UP, DOWN, LEFT, RIGHT.
Destinations(s, i) ==
    LET occupied == s.black_pieces \cup s.white_pieces \cup s.king_piece
    IN  Slide(occupied, i, 0 - 7) \o Slide(occupied, i, 7)
        \o Slide(occupied, i, 0 - 1) \o Slide(occupied, i, 1)

\* The repetition lookup shared by add_move and is_safe_move: the predicted
\* boards of the move are found in history[0..history_len].
InHistory(s, coords) ==
    binary_search_is_ok(s.history, predict_next_boards(s, coords))

RECURSIVE AddMoves(_, _, _, _, _)
AddMoves(s, i, dests, n, filter_repetition) ==
    IF n > Len(dests) THEN <<>>
    ELSE LET coords == <<Row(i), Col(i), Row(dests[n]), Col(dests[n])>>
             keep == /\ ~is_restricted_violation(s, Row(dests[n]), Col(dests[n]), i)
                     /\ ~(filter_repetition /\ InHistory(s, coords))
         IN  (IF keep THEN <<coords>> ELSE <<>>)
             \o AddMoves(s, i, dests, n + 1, filter_repetition)

RECURSIVE LegalMovesFrom(_, _, _, _)
LegalMovesFrom(s, i, my_pieces, filter_repetition) ==
    IF i >= TOTAL_SQUARES THEN <<>>
    ELSE (IF i \in my_pieces
          THEN AddMoves(s, i, Destinations(s, i), 1, filter_repetition)
          ELSE <<>>)
         \o LegalMovesFrom(s, i + 1, my_pieces, filter_repetition)

\* Mutant: the repetition filter is applied to the attacker instead.
get_legal_moves_FilterAttacker(s, no_repetition) ==
    LET my_pieces == IF s.player = "B" THEN s.black_pieces
                     ELSE s.white_pieces \cup s.king_piece
        filter_repetition == no_repetition /\ s.player = "B"
    IN  LegalMovesFrom(s, 0, my_pieces, filter_repetition)

\* The vector `moves` after the call.
get_legal_moves(s, no_repetition) ==
    LET my_pieces == IF s.player = "B" THEN s.black_pieces
                     ELSE s.white_pieces \cup s.king_piece
        filter_repetition == no_repetition /\ s.player = "W"
    IN  LegalMovesFrom(s, 0, my_pieces, filter_repetition)

\* Mutant: the existence check looks at the defenders' pawns and forgets the king.
has_legal_move_PawnsOnly(s, player) ==
    LET my_pieces == IF player = "B" THEN s.black_pieces
                     ELSE s.white_pieces
        check_repetition == player = "W"
    IN  \E i \in my_pieces :
            \E dest \in SeqRange(Destinations(s, i)) :
                /\ ~is_restricted_violation(s, Row(dest), Col(dest), i)
                /\ \/ ~check_repetition
                   \/ ~InHistory(s, <<Row(i), Col(i), Row(dest), Col(dest)>>)

has_legal_move(s, player) ==
    LET my_pieces == IF player = "B" THEN s.black_pieces
                     ELSE s.white_pieces \cup s.king_piece
        check_repetition == player = "W"
    IN  \E i \in my_pieces :
            \E dest \in SeqRange(Destinations(s, i)) :
                /\ ~is_restricted_violation(s, Row(dest), Col(dest), i)
                /\ \/ ~check_repetition
                   \/ ~InHistory(s, <<Row(i), Col(i), Row(dest), Col(dest)>>)

\* ------------------------------------------------------------------------
\* Game over
\* ------------------------------------------------------------------------
is_insufficient_material_draw(s) ==
    LET attackers == count_ones(s.black_pieces)
        defenders == count_ones(s.white_pieces)
    IN  attackers <= 2 /\ defenders <= 1

\* Mutant: the material draw is tested before the stalemate.
check_game_over_DrawFirst(s) ==
    IF (s.king_piece \cap CORNERS) # {} THEN "W"
    ELSE IF s.king_piece = {} THEN "B"
    ELSE IF s.repetition THEN "B"
    ELSE IF is_insufficient_material_draw(s) THEN "D"
    ELSE IF ~has_legal_move(s, s.player)
         THEN (IF s.player = "B" THEN "W" ELSE "B")
    ELSE "None"

\* Option<char>: "None" or the winner "W", "B", or "D" for a draw.
check_game_over(s) ==
    IF (s.king_piece \cap CORNERS) # {} THEN "W"
    ELSE IF s.king_piece = {} THEN "B"
    ELSE IF s.repetition THEN "B"
    ELSE IF ~has_legal_move(s, s.player)
         THEN (IF s.player = "B" THEN "W" ELSE "B")
    ELSE IF is_insufficient_material_draw(s) THEN "D"
    ELSE "None"

\* ------------------------------------------------------------------------
\* Heuristics
\* ------------------------------------------------------------------------
ROW_0_MASK == 0..6

ROW_6_MASK == 42..48

COL_0_MASK == {0, 7, 14, 21, 28, 35, 42}

COL_6_MASK == {6, 13, 20, 27, 34, 41, 48}

is_hostile_anvil_for_heuristic(s, i) ==
    IF i \in s.black_pieces THEN TRUE
    ELSE IF i \in CORNERS THEN TRUE
    ELSE i \in THRONE

\* The first occupied square met from j in the direction of step, if any.
RECURSIVE FirstOccupied(_, _, _)
FirstOccupied(occupied, j, step) ==
    IF \/ step = 0 - 7 /\ Row(j) = 0
       \/ step = 7 /\ Row(j) = 6
       \/ step = 0 - 1 /\ Col(j) = 0
       \/ step = 1 /\ Col(j) = 6
    THEN {}
    ELSE IF (j + step) \in occupied THEN {j + step}
    ELSE FirstOccupied(occupied, j + step, step)

\* Some([sr, sc, er, ec]) for the first black piece found scanning up, down,
\* left and right from the target; None if there is none.
get_black_move_to(s, target_idx) ==
    IF target_idx \in RESTRICTED THEN {}
    ELSE LET occupied == s.black_pieces \cup s.white_pieces \cup s.king_piece
             Source(step) == FirstOccupied(occupied, target_idx, step) \cap s.black_pieces
             Move(src) == <<Row(src), Col(src), Row(target_idx), Col(target_idx)>>
         IN  IF Source(0 - 7) # {} THEN {Move(SetMin(Source(0 - 7)))}
             ELSE IF Source(7) # {} THEN {Move(SetMin(Source(7)))}
             ELSE IF Source(0 - 1) # {} THEN {Move(SetMin(Source(0 - 1)))}
             ELSE IF Source(1) # {} THEN {Move(SetMin(Source(1)))}
             ELSE {}

\* The king on or next to the throne: `needed` attackers among the
\* neighbours (the throne skipped) and a move to the last empty neighbour.
CaptureKingAtThrone(s, k_idx, needed) ==
    LET neighbors == get_orthogonal_neighbors(k_idx)
        occupied == s.black_pieces \cup s.white_pieces \cup s.king_piece
        counted == {n \in 1..Len(neighbors) : k_idx = 24 \/ neighbors[n] # 24}
        black_count == Cardinality({n \in counted : neighbors[n] \in s.black_pieces})
        empty == {n \in counted : neighbors[n] \notin occupied}
    IN  IF black_count = needed /\ empty # {}
        THEN get_black_move_to(s, neighbors[SetMax(empty)])
        ELSE {}

\* The sandwich of a king away from the throne: the four killer/anvil
\* pairs in the order they are tried.
CaptureKingSandwich(s, k_idx) ==
    LET occupied == s.black_pieces \cup s.white_pieces \cup s.king_piece
        r == Row(k_idx)
        c == Col(k_idx)
        Try(ok, killer, anvil) ==
            IF ok /\ is_hostile_anvil_for_heuristic(s, anvil) /\ killer \notin occupied
            THEN get_black_move_to(s, killer)
            ELSE {}
        horizontal == c > 0 /\ c < 6
        vertical == r > 0 /\ r < 6
        w == k_idx - 1
        e == k_idx + 1
        n == k_idx - 7
        so == k_idx + 7
    IN  IF Try(horizontal, w, e) # {} THEN Try(horizontal, w, e)
        ELSE IF Try(horizontal, e, w) # {} THEN Try(horizontal, e, w)
        ELSE IF Try(vertical, n, so) # {} THEN Try(vertical, n, so)
        ELSE Try(vertical, so, n)

\* Some(move) when Black can capture the king at once; None otherwise (the
\* bool of the pair is true exactly when the move is Some).
heuristic_capture_king(s) ==
    IF s.player # "B" THEN {}
    ELSE LET k_idx == trailing_zeros(s.king_piece)
         IN  IF k_idx >= 64 THEN {}
             ELSE IF k_idx = 24 THEN CaptureKingAtThrone(s, k_idx, 3)
             ELSE IF k_idx \in {23, 25, 17, 31} THEN CaptureKingAtThrone(s, k_idx, 2)
             ELSE CaptureKingSandwich(s, k_idx)

\* check_path: the count squares after start_idx in the direction of step
\* are empty.
check_path(occupied, start_idx, step, count) ==
    \A n \in 1..count : (start_idx + n * step) \notin occupied

heuristic_king_to_corner(s) ==
    LET k_idx == trailing_zeros(s.king_piece)
        r == Row(k_idx)
        c == Col(k_idx)
        occupied == s.black_pieces \cup s.white_pieces \cup s.king_piece
    IN  IF k_idx >= 64 THEN {}
        ELSE IF r = 0 /\ c > 0 /\ check_path(occupied, k_idx, 0 - 1, c) THEN {<<r, c, 0, 0>>}
        ELSE IF c = 0 /\ r > 0 /\ check_path(occupied, k_idx, 0 - 7, r) THEN {<<r, c, 0, 0>>}
        ELSE IF r = 0 /\ c < 6 /\ check_path(occupied, k_idx, 1, 6 - c) THEN {<<r, c, 0, 6>>}
        ELSE IF c = 6 /\ r > 0 /\ check_path(occupied, k_idx, 0 - 7, r) THEN {<<r, c, 0, 6>>}
        ELSE IF r = 6 /\ c > 0 /\ check_path(occupied, k_idx, 0 - 1, c) THEN {<<r, c, 6, 0>>}
        ELSE IF c = 0 /\ r < 6 /\ check_path(occupied, k_idx, 7, 6 - r) THEN {<<r, c, 6, 0>>}
        ELSE IF r = 6 /\ c < 6 /\ check_path(occupied, k_idx, 1, 6 - c) THEN {<<r, c, 6, 6>>}
        ELSE IF c = 6 /\ r < 6 /\ check_path(occupied, k_idx, 7, 6 - r) THEN {<<r, c, 6, 6>>}
        ELSE {}

heuristic_king_empty_edge(s) ==
    LET k_idx == trailing_zeros(s.king_piece)
        r == Row(k_idx)
        c == Col(k_idx)
        occupied == s.black_pieces \cup s.white_pieces \cup s.king_piece
    IN  IF k_idx >= 64 THEN {}
        ELSE IF (occupied \cap ROW_0_MASK) = {} /\ check_path(occupied, k_idx, 0 - 7, r)
             THEN {<<r, c, 0, c>>}
        ELSE IF (occupied \cap ROW_6_MASK) = {} /\ check_path(occupied, k_idx, 7, 6 - r)
             THEN {<<r, c, 6, c>>}
        ELSE IF (occupied \cap COL_0_MASK) = {} /\ check_path(occupied, k_idx, 0 - 1, c)
             THEN {<<r, c, r, 0>>}
        ELSE IF (occupied \cap COL_6_MASK) = {} /\ check_path(occupied, k_idx, 1, 6 - c)
             THEN {<<r, c, r, 6>>}
        ELSE {}

heuristic_wins_w(s) ==
    IF s.player # "W" THEN FALSE
    ELSE IF heuristic_king_to_corner(s) # {} THEN TRUE
    ELSE heuristic_king_empty_edge(s) # {}

\* ------------------------------------------------------------------------
\* Machine words of the table (transposition.rs)
\* ------------------------------------------------------------------------
\* A u64, usize, isize or u128 is the set of the positions of its 1 bits, as
\* the bitboards are; an isize is in two's complement on 64 bits.
USIZE_BITS == 64

\* The bits offset .. offset + bits - 1: ((1 << bits) - 1) << offset.
MaskBits(offset, bits) == offset .. (offset + bits - 1)

\* x << n (no bit leaves a u128 in the shifts the table makes)
Shl(x, n) == {i + n : i \in x}

\* x >> n
Shr(x, n) == {i - n : i \in {j \in x : j >= n}}

\* The word of a number below 2^31.
WordOf(n) == {i \in 0..30 : (n \div (2 ^ i)) % 2 = 1}

\* The number of a word below 2^31.
RECURSIVE NatOf(_)
NatOf(x) == IF x = {} THEN 0 ELSE (2 ^ SetMax(x)) + NatOf(x \ {SetMax(x)})

RECURSIVE AddCarry(_, _, _, _)
AddCarry(a, b, i, carry) ==
    IF i = USIZE_BITS THEN {}
    ELSE LET sum == (IF i \in a THEN 1 ELSE 0) + (IF i \in b THEN 1 ELSE 0) + carry
         IN  (IF sum % 2 = 1 THEN {i} ELSE {}) \cup AddCarry(a, b, i + 1, sum \div 2)

\* a + b on 64 bits
Add64(a, b) == AddCarry(a, b, 0, 0)

\* -a on 64 bits
Neg64(a) == Add64(MaskBits(0, USIZE_BITS) \ a, {0})

\* a < 0, a > 0 for an isize
IsNegative(a) == (USIZE_BITS - 1) \in a

IsPositive(a) == a # {} /\ ~IsNegative(a)

\* usize::MAX
USIZE_MAX == MaskBits(0, USIZE_BITS)

\* ------------------------------------------------------------------------
\* Table entry (transposition.rs)
\* ------------------------------------------------------------------------
TT_DIM_BITS == 24

HASH_BITS == 40

GEN_BITS == 13

VISITS_BITS == 37

WINS_BITS == 38

MAX_ITER_BITS == VISITS_BITS - GEN_BITS

MAX_ITER == 2 ^ MAX_ITER_BITS

HASH_OFFSET == 0

GEN_OFFSET == HASH_OFFSET + HASH_BITS

VISITS_OFFSET == GEN_OFFSET + GEN_BITS

WINS_OFFSET == VISITS_OFFSET + VISITS_BITS

HASH_MASK == MaskBits(HASH_OFFSET, HASH_BITS)

GEN_MASK == MaskBits(GEN_OFFSET, GEN_BITS)

VISITS_MASK == MaskBits(VISITS_OFFSET, VISITS_BITS)

WINS_MASK == MaskBits(WINS_OFFSET, WINS_BITS)

\* TT_entry::default(): data = 0
ZeroEntry == {}

is_empty(e) == e = {}

hash_equals(e, hash) ==
    LET stored_part == e \cap HASH_MASK
        query_part == Shr(hash, TT_DIM_BITS)
    IN  stored_part = query_part

\* the generation field, a number below 2^GEN_BITS
get_generation(e) == NatOf(Shr(e \cap GEN_MASK, GEN_OFFSET))

get_n_visits(e) == Shr(e \cap VISITS_MASK, VISITS_OFFSET)

get_n_wins(e) ==
    LET raw == Shr(e \cap WINS_MASK, WINS_OFFSET)
    IN  IF (WINS_BITS - 1) \in raw
        THEN raw \cup MaskBits(WINS_BITS, USIZE_BITS - WINS_BITS)
        ELSE raw

set_hash(e, hash) ==
    LET part == Shr(hash, TT_DIM_BITS)
    IN  (e \ HASH_MASK) \cup (part \cap HASH_MASK)

\* Mutant: the generation is masked to its field before it is stored.
set_generation_Masked(e, generation) ==
    (e \ GEN_MASK) \cup (Shl(WordOf(generation), GEN_OFFSET) \cap GEN_MASK)

\* generation is a u32 given as a number; the shifted value is not masked.
set_generation(e, generation) ==
    (e \ GEN_MASK) \cup Shl(WordOf(generation), GEN_OFFSET)

set_n_visits(e, value) ==
    LET val_clamped == Shl(value, VISITS_OFFSET)
    IN  (e \ VISITS_MASK) \cup (val_clamped \cap VISITS_MASK)

set_n_wins(e, value) ==
    LET val_encoded == Shl(value, WINS_OFFSET)
    IN  (e \ WINS_MASK) \cup (val_encoded \cap WINS_MASK)

add_n_visits(e, increase) ==
    LET current == get_n_visits(e)
    IN  set_n_visits(e, Add64(current, increase))

add_n_wins(e, increase) ==
    LET current == get_n_wins(e)
    IN  set_n_wins(e, Add64(current, increase))

\* ------------------------------------------------------------------------
\* Bucket and table (transposition.rs)
\* ------------------------------------------------------------------------
\* entries: [TT_entry; 4], entries[i] of the code being entries[i + 1] here
BUCKET_ENTRIES == 4

\* TT_bucket::default()
ZeroBucket == [i \in 1..BUCKET_ENTRIES |-> ZeroEntry]

\* The index of the entry returned, as a set: empty for None.
get_entry(entries, hash) ==
    LET found == {i \in 1..BUCKET_ENTRIES :
                     ~is_empty(entries[i]) /\ hash_equals(entries[i], hash)}
    IN  IF found = {} THEN {} ELSE {SetMin(found)}

overwrite(entries, index, hash, generation, visits, wins) ==
    [entries EXCEPT ![index] =
        set_n_wins(set_n_visits(set_generation(set_hash(@, hash), generation),
                                visits), wins)]

\* The second loop of add_entry: the least visited entry of the bucket.
RECURSIVE LeastVisited(_, _, _, _)
LeastVisited(entries, index, min_visits, min_index) ==
    IF index > BUCKET_ENTRIES THEN min_index
    ELSE IF BitLess(get_n_visits(entries[index]), min_visits)
         THEN LeastVisited(entries, index + 1, get_n_visits(entries[index]), index)
         ELSE LeastVisited(entries, index + 1, min_visits, min_index)

\* The first loop of a bucket that evicts the least visited entry whatever
\* its generation.
RECURSIVE AddEntryLoop_AnyGeneration(_, _, _, _, _, _, _)
AddEntryLoop_AnyGeneration(entries, hash, generation, generation_bound, index, min_visits, min_index) ==
    IF index > BUCKET_ENTRIES
    THEN [entries |-> overwrite(entries, LeastVisited(entries, 1, USIZE_MAX, 0),
                                hash, generation, {}, {}),
          result |-> "OverwrittenOUT"]
    ELSE LET entry == entries[index]
         IN  IF ~is_empty(entry) /\ hash_equals(entry, hash)
             THEN [entries |-> [entries EXCEPT ![index] = set_generation(entry, generation)],
                   result |-> "Found"]
             ELSE IF is_empty(entry)
             THEN [entries |-> overwrite(entries, index, hash, generation, {}, {}),
                   result |-> "EmptyEntry"]
             ELSE AddEntryLoop_AnyGeneration(entries, hash, generation,
                                             generation_bound, index + 1,
                                             min_visits, min_index)

\* The first loop of add_entry from entry `index` on, and what follows it.
RECURSIVE AddEntryLoop(_, _, _, _, _, _, _)
AddEntryLoop(entries, hash, generation, generation_bound, index, min_visits, min_index) ==
    IF index > BUCKET_ENTRIES
    THEN IF min_visits = USIZE_MAX
         THEN [entries |-> overwrite(entries, LeastVisited(entries, 1, min_visits, min_index),
                                     hash, generation, {}, {}),
               result |-> "OverwrittenIN"]
         ELSE [entries |-> overwrite(entries, min_index, hash, generation, {}, {}),
               result |-> "OverwrittenOUT"]
    ELSE LET entry == entries[index]
         IN  IF ~is_empty(entry) /\ hash_equals(entry, hash)
             THEN [entries |-> [entries EXCEPT ![index] = set_generation(entry, generation)],
                   result |-> "Found"]
             ELSE IF is_empty(entry)
             THEN [entries |->
                      [entries EXCEPT ![index] =
                          set_n_wins(set_n_visits(set_generation(set_hash(entry, hash),
                                                                 generation), {}), {})],
                   result |-> "EmptyEntry"]
             ELSE IF /\ get_generation(entry) < generation_bound
                     /\ BitLess(get_n_visits(entry), min_visits)
             THEN AddEntryLoop(entries, hash, generation, generation_bound,
                               index + 1, get_n_visits(entry), index)
             ELSE AddEntryLoop(entries, hash, generation, generation_bound,
                               index + 1, min_visits, min_index)

\* Mutant: the eviction takes the least visited entry whatever its generation.
add_entry_AnyGeneration(entries, hash, generation, generation_bound) ==
    AddEntryLoop_AnyGeneration(entries, hash, generation, generation_bound, 1,
                               USIZE_MAX, 0)

\* The bucket after the call and the CollisionType returned.
add_entry(entries, hash, generation, generation_bound) ==
    AddEntryLoop(entries, hash, generation, generation_bound, 1, USIZE_MAX, 0)

\* TT::new(): every bucket zeroed.  The table is the function from the
\* indices of the buckets written so far to their entries.
TT_new == <<>>

\* the index of get_bucket: (hash as usize) & TT_DIM_MINUS_1
BucketIndex(hash) == hash \cap MaskBits(0, TT_DIM_BITS)

get_bucket(buckets, hash) ==
    IF BucketIndex(hash) \in DOMAIN buckets THEN buckets[BucketIndex(hash)]
    ELSE ZeroBucket

\* The table with the bucket of hash replaced by entries.
SetBucket(buckets, hash, entries) ==
    LET written == IF entries = ZeroBucket
                   THEN (DOMAIN buckets) \ {BucketIndex(hash)}
                   ELSE (DOMAIN buckets) \cup {BucketIndex(hash)}
    IN  [i \in written |-> IF i = BucketIndex(hash) THEN entries ELSE buckets[i]]

\* ------------------------------------------------------------------------
\* The engine (mcts.rs)
\* ------------------------------------------------------------------------
WIN == 1

LOSS == 0 - 1

DRAW == 0

SOLVED_THRESHOLD == {WINS_BITS - 2}

MAX_GEN == 2 ^ 15

\* score * (n as isize), for a score among WIN, LOSS and DRAW
Scaled(score, n) ==
    IF score = WIN THEN n ELSE IF score = LOSS THEN Neg64(n) ELSE {}

\* SimulationType
Light == [kind |-> "Light", n |-> {0}]

Heavy == [kind |-> "Heavy", n |-> {0}]

ParallelLight(n) == [kind |-> "ParallelLight", n |-> n]

ParallelHeavy(n) == [kind |-> "ParallelHeavy", n |-> n]

\* MCTS::new panics
MCTS_new_panics(iterations_per_move) == iterations_per_move >= MAX_ITER

\* MCTS::new; ucb_const and z_table are fixed and left out.
MCTS_new(iterations_per_move, sim_type) ==
    [iterations_per_move |-> iterations_per_move,
     generation |-> 0,
     generation_range |-> 1,
     generation_bound |-> 0,
     transpositions |-> TT_new,
     written_entries |-> 0,
     overwritten_entries_in |-> 0,
     overwritten_entries_out |-> 0,
     sim_type |-> sim_type]

\* increase_generation panics
increase_generation_panics(self) == self.generation + 1 >= MAX_GEN

increase_generation(self) ==
    [self EXCEPT !.generation = @ + 1,
                 !.generation_bound =
                     IF self.generation + 1 > self.generation_range THEN @ + 1 ELSE @,
                 !.written_entries = 0,
                 !.overwritten_entries_in = 0,
                 !.overwritten_entries_out = 0]

increase_collision_in(self) ==
    [self EXCEPT !.written_entries = @ + 1, !.overwritten_entries_in = @ + 1]

increase_collision_out(self) ==
    [self EXCEPT !.written_entries = @ + 1, !.overwritten_entries_out = @ + 1]

\* The counters after the match on what add_entry returned.
CountCollision(self, result) ==
    IF result = "OverwrittenIN" THEN increase_collision_in(self)
    ELSE IF result = "OverwrittenOUT" THEN increase_collision_out(self)
    ELSE IF result = "EmptyEntry" THEN [self EXCEPT !.written_entries = @ + 1]
    ELSE self

\* bucket.add_entry(hash, self.generation, self.generation_bound) on the
\* bucket of hash, and the counters: the engine after it.
AddToTable(self, hash) ==
    LET r == add_entry(get_bucket(self.transpositions, hash), hash,
                       self.generation, self.generation_bound)
    IN  CountCollision([self EXCEPT !.transpositions = SetBucket(@, hash, r.entries)],
                       r.result)

\* The CollisionType of that call.
AddResult(self, hash) ==
    add_entry(get_bucket(self.transpositions, hash), hash,
              self.generation, self.generation_bound).result

\* The entry of hash in the table, as a set: empty when get_entry finds none.
Probe(self, hash) ==
    LET entries == get_bucket(self.transpositions, hash)
    IN  {entries[i] : i \in get_entry(entries, hash)}

\* The table after f is applied to the entry get_entry returns for hash.
WithEntry(self, hash, f(_)) ==
    LET entries == get_bucket(self.transpositions, hash)
        found == get_entry(entries, hash)
    IN  IF found = {} THEN self
        ELSE LET i == SetMin(found)
             IN  [self EXCEPT !.transpositions =
                     SetBucket(@, hash, [entries EXCEPT ![i] = f(entries[i])])]

mark_terminal(self, hash, score) ==
    LET added == AddToTable(self, hash)
        Solve(entry) ==
            set_n_wins(set_n_visits(set_generation(entry, self.generation),
                                    SOLVED_THRESHOLD),
                       Scaled(score, SOLVED_THRESHOLD))
    IN  WithEntry(added, hash, Solve)

get_batch_size(self) ==
    IF self.sim_type.kind \in {"Light", "Heavy"} THEN {0} ELSE self.sim_type.n

\* The backpropagation block of selection: the selected child's entry takes
\* the generation, visits_added and the result.
Backpropagate(self, selected_hash, result_for_child_node) ==
    LET Update(entry) ==
            add_n_wins(add_n_visits(set_generation(entry, self.generation),
                                    get_batch_size(self)),
                       result_for_child_node)
    IN  WithEntry(self, selected_hash, Update)

\* ------------------------------------------------------------------------
\* Key values (zobrist.rs)
\* ------------------------------------------------------------------------
\* The 64-bit value the seeded generator gave the key of index `key`: one
\* table of values, the same for every run of the model.
KeyWord(key) ==
    {b \in 0..(USIZE_BITS - 1) :
        ((((key + 3) * (b + 5) * (key + b + 7)) % 257)
          + (((key + 11) * (key + 11) * (b + 1)) % 263)) % 2 = 1}

\* The u64 value of a hash: the XOR of the values of its keys.
RECURSIVE HashWord(_)
HashWord(h) ==
    IF h = {} THEN {}
    ELSE LET key == SetMin(h)
         IN  BitXor(KeyWord(key), HashWord(h \ {key}))

\* ------------------------------------------------------------------------
\* The search (mcts.rs)
\* ------------------------------------------------------------------------
\* The depth of the recursion of selection the model follows.
MaxDepth == 2

\* A search that takes no entry for solved.
IsSolved_Never(entry) == FALSE

\* visits >= SOLVED_THRESHOLD
IsSolved(entry) == ~BitLess(get_n_visits(entry), SOLVED_THRESHOLD)

\* What selection and simulation ask of a position: check_game_over and the
\* two heuristics.
Verdict(s) ==
    [winner |-> check_game_over(s),
     wins_w |-> heuristic_wins_w(s),
     capture_king |-> IF s.player = "B" THEN heuristic_capture_king(s) # {} ELSE FALSE]

\* simulation, simulation_hard: the results one playout from s can have, for
\* s.player.  A game that is over, or won by a heuristic, or left without a
\* move, gives its result; otherwise the playout plays random moves and any
\* result can come out.
PlayoutResultsOf(s, verdict, moves) ==
    IF verdict.winner # "None"
    THEN {IF verdict.winner = "D" THEN DRAW
          ELSE IF verdict.winner = s.player THEN WIN ELSE LOSS}
    ELSE IF verdict.wins_w THEN {IF s.player = "W" THEN WIN ELSE LOSS}
    ELSE IF verdict.capture_king THEN {WIN}
    ELSE IF moves = <<>> THEN {LOSS}
    ELSE {WIN, LOSS, DRAW}

PlayoutResults(s) == PlayoutResultsOf(s, Verdict(s), get_legal_moves(s, TRUE))

\* The sim_score of an expansion: one playout, or the sum of the playouts of
\* a batch that all end the same way.
SimulationResults(self, s) ==
    {Scaled(r, get_batch_size(self)) : r \in PlayoutResults(s)}

\* selection, the terminal and heuristics checks: the terminal_score, as a
\* set (empty: None).  The later assignment wins.
TerminalScore(s, verdict, scaled_win, scaled_loss, scaled_draw) ==
    IF verdict.capture_king THEN {scaled_win}
    ELSE IF verdict.wins_w THEN {IF s.player = "W" THEN scaled_win ELSE scaled_loss}
    ELSE IF verdict.winner = "None" THEN {}
    ELSE IF verdict.winner = "D" THEN {scaled_draw}
    ELSE IF verdict.winner = s.player THEN {scaled_win}
    ELSE {scaled_loss}

\* The children of s: for each move of get_legal_moves(.., true), next_hash
\* and the state after move_piece.
ChildHashes(s, moves) == [n \in 1..Len(moves) |-> HashWord(next_hash(s, moves[n]))]

ChildStates(s, moves) == [n \in 1..Len(moves) |-> move_piece(s, moves[n])]

\* selection without the solver propagation: the node is never marked and
\* always returns the negated result of the child.
SelectionReturn_NoSolver(self, hash, selected_hash, result_for_child_node, trail) ==
    LET propagated == Backpropagate(self, selected_hash, result_for_child_node)
        returned == Neg64(result_for_child_node)
    IN  [engine |-> propagated,
         result |-> returned,
         trail  |-> <<[node |-> hash,
                       child |-> selected_hash,
                       child_before |-> Probe(self, selected_hash),
                       child_result |-> result_for_child_node,
                       child_entry |-> Probe(propagated, selected_hash),
                       node_entry |-> Probe(propagated, hash),
                       result |-> returned]>> \o trail]

\* selection, backpropagation and solver propagation at the node of `hash`:
\* the pass came back from the child selected_hash with
\* result_for_child_node.  The trail gets the node's frame.
SelectionReturn(self, hash, selected_hash, result_for_child_node, trail) ==
    LET propagated == Backpropagate(self, selected_hash, result_for_child_node)
        child == Probe(propagated, selected_hash)
        proven == \E e \in child : IsSolved(e) /\ IsNegative(get_n_wins(e))
        final == IF proven THEN mark_terminal(propagated, hash, WIN) ELSE propagated
        returned == IF proven THEN Scaled(WIN, get_batch_size(self))
                    ELSE Neg64(result_for_child_node)
    IN  [engine |-> final,
         result |-> returned,
         trail  |-> <<[node |-> hash,
                       child |-> selected_hash,
                       child_before |-> Probe(self, selected_hash),
                       child_result |-> result_for_child_node,
                       child_entry |-> child,
                       node_entry |-> Probe(final, hash),
                       result |-> returned]>> \o trail]

\* selection returns at a node without selecting a child: `how` names the
\* return statement taken and the score returned, `after` is the engine it
\* leaves.  The leaf records the node, its state, the verdict on it and the
\* engine before and after.
LeaveNode(self, s, hash, verdict, how, after) ==
    [engine |-> after,
     result |-> how.score,
     trail |-> <<>>,
     leaf |-> [kind |-> how.kind,
               node |-> hash,
               state |-> s,
               player |-> s.player,
               repetition |-> s.repetition,
               verdict |-> verdict,
               score |-> how.score,
               before |-> self,
               after |-> after]]

\* Mutant: a node left without a mark is marked lost all the same.
Marked_Always(self, hash, mark) ==
    mark_terminal(self, hash, IF mark = {} THEN LOSS ELSE CHOOSE m \in mark : TRUE)

\* The engine a node is left with: mark_terminal is called when the return
\* statement taken marks the node (mark is {WIN} or {LOSS}), and nothing is
\* written when it does not (mark is empty: the solved node and the
\* repetition).
Marked(self, hash, mark) ==
    IF mark = {} THEN self ELSE mark_terminal(self, hash, CHOOSE m \in mark : TRUE)

\* The leaf of a pass that ends with an expansion: the playouts of the child.
Playout(hash) == [kind |-> "playout", node |-> hash]

\* best_move_visits: the visits of the visited child the pass goes down to.
BestMoveVisits(self, child_hash) ==
    CHOOSE v \in {get_n_visits(e) : e \in Probe(self, child_hash)} : TRUE

\* selection(state, node_visits): the set of [engine, result, trail] the pass
\* can end with.  An unvisited child is picked at random; among visited
\* children the one of highest UCB value is picked, a floating-point
\* comparison the model replaces by the choice of any visited child (so
\* node_visits plays no part).  The trail lists, from this node down, the
\* nodes that selected a child: the hashes of node and child, the child's
\* entry after backpropagation, the node's entry when the node returns, and
\* the result returned.
RECURSIVE selection(_, _, _, _)
\* Mutant: a visited child is selected whenever there is one.
SelectionAt_VisitedFirst(self, s, depth, hash, verdict, child_hash, child_state) ==
    LET batch_size == get_batch_size(self)
        scaled_win == Scaled(WIN, batch_size)
        scaled_loss == Scaled(LOSS, batch_size)
        scaled_draw == Scaled(DRAW, batch_size)
        node == Probe(self, hash)
        terminal_score ==
            TerminalScore(s, verdict, scaled_win, scaled_loss, scaled_draw)
        visited ==
            {n \in DOMAIN child_hash :
                \E e \in Probe(self, child_hash[n]) : get_n_visits(e) # {}}
        \* the node is left without selecting a child: what is marked (none:
        \* the empty set) and the score returned
        left ==
            IF \E e \in node : IsSolved(e)
            THEN {[kind |-> "solved", mark |-> {},
                   score |-> IF IsPositive(get_n_wins(e)) THEN scaled_win
                             ELSE IF IsNegative(get_n_wins(e)) THEN scaled_loss
                             ELSE scaled_draw] : e \in node}
            ELSE IF verdict.winner # "None" /\ s.repetition
            THEN {[kind |-> "repetition", mark |-> {},
                   score |-> IF verdict.winner = "D" THEN scaled_draw
                             ELSE IF verdict.winner = s.player THEN scaled_win
                             ELSE scaled_loss]}
            ELSE IF terminal_score # {}
            THEN {[kind |-> "terminal",
                   mark |-> {IF IsPositive(score) THEN WIN ELSE LOSS},
                   score |-> score] : score \in terminal_score}
            ELSE IF DOMAIN child_hash = {}
            THEN {[kind |-> "no_moves", mark |-> {LOSS}, score |-> scaled_loss]}
            ELSE {}
        \* the child selected, and what came back from it
        descents ==
            IF visited = {}
            THEN UNION {
                   {[n |-> n, engine |-> AddToTable(self, child_hash[n]),
                     result |-> sim_score, trail |-> <<>>,
                     leaf |-> Playout(child_hash[n])] :
                       sim_score \in SimulationResults(self, child_state[n])} :
                   n \in DOMAIN child_hash \ visited}
            ELSE IF depth >= MaxDepth THEN {}
            ELSE UNION {
                   {[n |-> n, engine |-> o.engine, result |-> o.result,
                     trail |-> o.trail, leaf |-> o.leaf] :
                       o \in selection(self, child_state[n],
                                       BestMoveVisits(self, child_hash[n]), depth + 1)} :
                   n \in visited}
    IN  IF left # {}
        THEN {LeaveNode(self, s, hash, verdict, l, Marked(self, hash, l.mark)) :
                 l \in left}
        ELSE {SelectionReturn(d.engine, hash, child_hash[d.n], d.result, d.trail)
                @@ [leaf |-> d.leaf] :
                 d \in descents}

SelectionAt(self, s, depth, hash, verdict, child_hash, child_state) ==
    LET batch_size == get_batch_size(self)
        scaled_win == Scaled(WIN, batch_size)
        scaled_loss == Scaled(LOSS, batch_size)
        scaled_draw == Scaled(DRAW, batch_size)
        node == Probe(self, hash)
        terminal_score ==
            TerminalScore(s, verdict, scaled_win, scaled_loss, scaled_draw)
        visited ==
            {n \in DOMAIN child_hash :
                \E e \in Probe(self, child_hash[n]) : get_n_visits(e) # {}}
        \* the node is left without selecting a child: what is marked (none:
        \* the empty set) and the score returned
        left ==
            IF \E e \in node : IsSolved(e)
            THEN {[kind |-> "solved", mark |-> {},
                   score |-> IF IsPositive(get_n_wins(e)) THEN scaled_win
                             ELSE IF IsNegative(get_n_wins(e)) THEN scaled_loss
                             ELSE scaled_draw] : e \in node}
            ELSE IF verdict.winner # "None" /\ s.repetition
            THEN {[kind |-> "repetition", mark |-> {},
                   score |-> IF verdict.winner = "D" THEN scaled_draw
                             ELSE IF verdict.winner = s.player THEN scaled_win
                             ELSE scaled_loss]}
            ELSE IF terminal_score # {}
            THEN {[kind |-> "terminal",
                   mark |-> {IF IsPositive(score) THEN WIN ELSE LOSS},
                   score |-> score] : score \in terminal_score}
            ELSE IF DOMAIN child_hash = {}
            THEN {[kind |-> "no_moves", mark |-> {LOSS}, score |-> scaled_loss]}
            ELSE {}
        \* the child selected, and what came back from it
        descents ==
            IF visited # DOMAIN child_hash
            THEN UNION {
                   {[n |-> n, engine |-> AddToTable(self, child_hash[n]),
                     result |-> sim_score, trail |-> <<>>,
                     leaf |-> Playout(child_hash[n])] :
                       sim_score \in SimulationResults(self, child_state[n])} :
                   n \in DOMAIN child_hash \ visited}
            ELSE IF depth >= MaxDepth THEN {}
            ELSE UNION {
                   {[n |-> n, engine |-> o.engine, result |-> o.result,
                     trail |-> o.trail, leaf |-> o.leaf] :
                       o \in selection(self, child_state[n],
                                       BestMoveVisits(self, child_hash[n]), depth + 1)} :
                   n \in visited}
    IN  IF left # {}
        THEN {LeaveNode(self, s, hash, verdict, l, Marked(self, hash, l.mark)) :
                 l \in left}
        ELSE {SelectionReturn(d.engine, hash, child_hash[d.n], d.result, d.trail)
                @@ [leaf |-> d.leaf] :
                 d \in descents}

\* selection with the verdict on the state and its moves worked out.
SelectionWith(self, s, depth, verdict, moves) ==
    SelectionAt(self, s, depth, HashWord(s.hash), verdict,
                ChildHashes(s, moves), ChildStates(s, moves))

selection(self, s, node_visits, depth) ==
    SelectionWith(self, s, depth, Verdict(s), get_legal_moves(s, TRUE))

\* start_search, before the passes: the generation advances and the root's
\* counts are read: [engine, root_visits, root_wins].
start_search_begin(self, root) ==
    LET started == increase_generation(self)
        root_entry == Probe(started, HashWord(root.hash))
        read == {get_n_visits(e) : e \in root_entry}
        root_visits == IF read = {} \/ read = {{}} THEN {0} ELSE CHOOSE v \in read : TRUE
        root_wins == IF root_entry = {} THEN {}
                     ELSE get_n_wins(CHOOSE e \in root_entry : TRUE)
    IN  [engine |-> started, root_visits |-> root_visits, root_wins |-> root_wins]

\* start_search, after the passes: the root's counts are written back.
start_search_end(self, root, root_visits, root_wins) ==
    LET hash == HashWord(root.hash)
        Write(entry) == set_n_wins(set_n_visits(entry, root_visits), root_wins)
    IN  WithEntry(AddToTable(self, hash), hash, Write)

\* The heuristics get_move tries before it searches.
InstantWin(root) ==
    IF root.player = "W"
    THEN (IF heuristic_king_to_corner(root) # {} THEN heuristic_king_to_corner(root)
          ELSE heuristic_king_empty_edge(root))
    ELSE heuristic_capture_king(root)

\* get_move, the choice of the best move after the search, moves being
\* get_legal_moves(.., true) and child[n] the visits and raw_wins read for
\* moves[n]: the moves it can return (one, or any move when none was
\* evaluated).
ChooseAmong(moves, child) ==
    LET is_solved == {n \in 1..Len(moves) :
                         ~BitLess(child[n].visits, SOLVED_THRESHOLD)}
        proven_win == {n \in is_solved : child[n].raw_wins = {}}
        proven_loss == {n \in is_solved : IsPositive(child[n].raw_wins)}
        considered ==
            {n \in 1..Len(moves) :
                /\ n \notin proven_loss
                /\ \A w \in proven_win : n < w}
        best == {n \in considered :
                    \A j \in considered :
                        IF j < n THEN BitLess(child[j].visits, child[n].visits)
                        ELSE ~BitLess(child[n].visits, child[j].visits)}
        forced_loss == {n \in proven_loss : \A w \in proven_win : n < w}
    IN  IF proven_win # {} THEN {moves[SetMin(proven_win)]}
        ELSE IF best # {} THEN {moves[n] : n \in best}
        ELSE IF forced_loss # {} THEN {moves[SetMax(forced_loss)]}
        ELSE SeqRange(moves)

\* The visits and raw_wins get_move reads for the child of each move: zero
\* when the table has no entry for it.
ChildCounts(self, child_hash) ==
    [n \in DOMAIN child_hash |->
        LET found == Probe(self, child_hash[n])
        IN  IF found = {} THEN [visits |-> {}, raw_wins |-> {}]
            ELSE [visits |-> get_n_visits(CHOOSE e \in found : TRUE),
                  raw_wins |-> get_n_wins(CHOOSE e \in found : TRUE)]]

ChooseFrom(self, root, moves) ==
    ChooseAmong(moves, ChildCounts(self, ChildHashes(root, moves)))

ChooseBestMove(self, root) == ChooseFrom(self, root, get_legal_moves(root, TRUE))

\* ------------------------------------------------------------------------
\* The state machine
\* ------------------------------------------------------------------------
\* Recorded games: each is a sequence of moves played from GameState::new,
\* every move taken from get_legal_moves of the state it is applied to.  Some
\* go on after check_game_over reports a result: move_piece does not check
\* it, and get_legal_moves still returns moves.
Games ==
    <<
      << <<3, 5, 2, 5>>, <<2, 3, 2, 1>>, <<3, 6, 5, 6>>, <<4, 3, 4, 6>>, <<2, 5, 4, 5>>,
         <<3, 4, 4, 4>>, <<5, 3, 5, 0>>, <<2, 1, 1, 1>>, <<1, 3, 1, 2>>, <<3, 3, 1, 3>>,
         <<6, 3, 5, 3>>, <<1, 1, 1, 2>>, <<3, 1, 2, 1>>, <<1, 3, 2, 3>>, <<2, 1, 3, 1>>,
         <<2, 3, 1, 3>>, <<3, 1, 3, 5>>, <<4, 4, 4, 0>>, <<5, 3, 5, 0>>, <<4, 6, 4, 0>>,
         <<3, 0, 1, 0>>, <<4, 0, 2, 0>>, <<3, 5, 1, 5>>, <<2, 0, 2, 5>>, <<1, 5, 1, 4>>,
         <<2, 5, 6, 5>>, <<1, 4, 6, 4>>, <<1, 3, 6, 3>>, <<0, 3, 1, 3>>, <<6, 3, 6, 0>> >>,
      << <<3, 5, 2, 5>>, <<2, 3, 2, 1>>, <<3, 6, 5, 6>>, <<4, 3, 4, 6>>, <<2, 5, 4, 5>>,
         <<3, 4, 4, 4>>, <<5, 3, 5, 0>>, <<2, 1, 1, 1>>, <<1, 3, 1, 2>>, <<3, 3, 1, 3>>,
         <<6, 3, 5, 3>>, <<1, 1, 1, 2>>, <<3, 1, 2, 1>>, <<1, 3, 2, 3>>, <<2, 1, 3, 1>>,
         <<2, 3, 1, 3>>, <<3, 1, 3, 5>>, <<4, 4, 4, 0>>, <<5, 3, 5, 0>>, <<4, 6, 4, 0>>,
         <<3, 0, 1, 0>>, <<4, 0, 2, 0>>, <<3, 5, 1, 5>>, <<2, 0, 2, 5>>, <<1, 5, 1, 4>>,
         <<2, 5, 6, 5>>, <<1, 4, 6, 4>>, <<1, 2, 0, 2>>, <<0, 3, 0, 4>>, <<0, 2, 1, 2>>,
         <<0, 4, 0, 3>> >>,
      << <<3, 5, 2, 5>>, <<2, 3, 2, 1>>, <<3, 6, 5, 6>>, <<4, 3, 4, 6>>, <<2, 5, 4, 5>>,
         <<3, 4, 4, 4>>, <<5, 3, 5, 0>>, <<2, 1, 1, 1>>, <<1, 3, 1, 2>>, <<3, 3, 1, 3>>,
         <<6, 3, 5, 3>>, <<1, 1, 1, 2>>, <<3, 1, 2, 1>>, <<1, 3, 2, 3>>, <<2, 1, 3, 1>>,
         <<2, 3, 1, 3>>, <<3, 1, 3, 5>>, <<4, 4, 4, 0>>, <<5, 3, 5, 0>>, <<4, 6, 4, 0>>,
         <<3, 0, 1, 0>>, <<4, 0, 2, 0>>, <<3, 5, 1, 5>>, <<2, 0, 2, 5>>, <<1, 5, 1, 4>>,
         <<2, 5, 6, 5>>, <<1, 4, 6, 4>>, <<1, 2, 0, 2>>, <<0, 3, 0, 4>>, <<1, 3, 1, 4>>,
         <<6, 4, 2, 4>> >>,
      << <<3, 5, 2, 5>>, <<2, 3, 2, 1>>, <<3, 6, 5, 6>>, <<4, 3, 4, 6>>, <<2, 5, 4, 5>>,
         <<3, 4, 4, 4>>, <<5, 3, 5, 0>>, <<2, 1, 1, 1>>, <<1, 3, 1, 2>>, <<3, 3, 1, 3>>,
         <<6, 3, 5, 3>>, <<1, 1, 1, 2>>, <<3, 1, 2, 1>>, <<1, 3, 2, 3>>, <<2, 1, 3, 1>>,
         <<2, 3, 1, 3>>, <<3, 1, 3, 5>>, <<4, 4, 4, 0>>, <<5, 3, 5, 0>>, <<4, 6, 4, 0>>,
         <<3, 0, 1, 0>>, <<4, 0, 2, 0>>, <<3, 5, 1, 5>>, <<2, 0, 2, 5>>, <<1, 5, 1, 4>>,
         <<2, 5, 6, 5>>, <<1, 4, 6, 4>>, <<1, 2, 0, 2>>, <<0, 3, 0, 5>>, <<0, 2, 0, 4>>,
         <<6, 4, 6, 5>>, <<0, 4, 6, 4>> >>,
      << <<0, 3, 0, 2>>, <<3, 4, 0, 4>>, <<3, 0, 2, 0>>, <<0, 4, 0, 3>>, <<2, 0, 5, 0>>,
         <<4, 3, 4, 0>>, <<6, 3, 6, 1>>, <<4, 0, 3, 0>>, <<3, 5, 0, 5>>, <<3, 2, 6, 2>>,
         <<0, 5, 6, 5>>, <<6, 2, 6, 4>>, <<3, 6, 1, 6>>, <<2, 3, 2, 6>>, <<5, 3, 5, 6>>,
         <<2, 6, 4, 6>>, <<0, 2, 0, 1>>, <<4, 6, 4, 1>>, <<0, 1, 0, 2>>, <<4, 1, 0, 1>> >>,
      << <<3, 5, 6, 5>>, <<3, 2, 0, 2>>, <<3, 1, 0, 1>>, <<2, 3, 2, 0>>, <<1, 3, 1, 1>>,
         <<3, 4, 0, 4>>, <<6, 5, 0, 5>>, <<2, 0, 2, 6>>, <<0, 5, 5, 5>>, <<3, 3, 3, 1>>,
         <<5, 3, 5, 1>>, <<2, 6, 2, 2>>, <<6, 3, 5, 3>>, <<2, 2, 2, 0>>, <<5, 3, 2, 3>>,
         <<3, 1, 2, 1>>, <<0, 3, 0, 4>>, <<2, 0, 1, 0>>, <<0, 4, 5, 4>>, <<2, 1, 2, 0>>,
         <<5, 1, 2, 1>> >>,
      << <<1, 3, 1, 1>>, <<4, 3, 4, 2>>, <<0, 3, 0, 5>>, <<3, 4, 0, 4>>, <<3, 0, 1, 0>>,
         <<2, 3, 0, 3>>, <<5, 3, 4, 3>>, <<3, 2, 0, 2>>, <<6, 3, 6, 4>>, <<0, 3, 2, 3>>,
         <<6, 4, 3, 4>>, <<2, 3, 2, 0>>, <<3, 5, 2, 5>>, <<4, 2, 2, 2>>, <<2, 5, 2, 4>>,
         <<2, 2, 5, 2>>, <<2, 4, 2, 3>>, <<0, 4, 0, 3>>, <<1, 1, 1, 2>>, <<0, 2, 0, 1>>,
         <<1, 2, 3, 2>> >>,
      << <<3, 1, 2, 1>>, <<2, 3, 2, 4>>, <<3, 0, 2, 0>>, <<3, 2, 6, 2>>, <<3, 5, 4, 5>>,
         <<2, 4, 2, 3>>, <<5, 3, 5, 6>>, <<2, 3, 2, 6>>, <<2, 1, 2, 4>>, <<3, 3, 2, 3>>,
         <<2, 0, 2, 2>> >>,
      << <<3, 5, 2, 5>>, <<3, 4, 6, 4>>, <<1, 3, 1, 4>>, <<4, 3, 4, 4>>, <<2, 5, 6, 5>>,
         <<3, 3, 3, 5>>, <<1, 4, 3, 4>> >>,
      << <<3, 5, 4, 5>>, <<3, 4, 2, 4>>, <<4, 5, 1, 5>>, <<3, 3, 3, 5>>, <<1, 5, 0, 5>>,
         <<3, 5, 5, 5>>, <<5, 3, 5, 0>>, <<5, 5, 5, 3>>, <<3, 6, 1, 6>>, <<2, 3, 2, 1>>,
         <<3, 1, 5, 1>>, <<5, 3, 5, 2>>, <<6, 3, 5, 3>> >>,
      << <<3, 0, 5, 0>>, <<3, 2, 1, 2>>, <<3, 1, 3, 2>>, <<4, 3, 4, 5>>, <<5, 3, 5, 1>>,
         <<2, 3, 2, 2>>, <<1, 3, 2, 3>>, <<4, 5, 4, 4>>, <<6, 3, 4, 3>> >>,
      << <<3, 0, 1, 0>>, <<2, 3, 2, 5>>, <<6, 3, 6, 4>>, <<4, 3, 4, 4>>, <<5, 3, 5, 5>>,
         <<3, 3, 5, 3>>, <<5, 5, 4, 5>>, <<3, 4, 1, 4>>, <<1, 3, 2, 3>>, <<1, 4, 1, 3>> >>,
      << <<1, 3, 1, 5>>, <<4, 3, 4, 1>>, <<0, 3, 0, 1>>, <<4, 1, 4, 3>>, <<0, 1, 0, 3>> >>,
      << <<3, 5, 5, 5>>, <<3, 4, 4, 4>>, <<5, 5, 3, 5>>, <<4, 4, 3, 4>> >>,
      << <<6, 3, 6, 4>>, <<4, 3, 4, 5>>, <<5, 3, 5, 0>>, <<3, 3, 6, 3>>, <<3, 5, 2, 5>>,
         <<6, 3, 6, 0>>, <<0, 3, 0, 2>>, <<6, 0, 6, 1>>, <<0, 2, 0, 3>>, <<6, 1, 6, 0>> >>,
      << <<5, 3, 5, 1>>, <<2, 3, 2, 0>>, <<5, 1, 5, 0>>, <<4, 3, 4, 0>> >>,
      << <<5, 3, 5, 6>>, <<3, 4, 1, 4>>, <<6, 3, 5, 3>> >>,
      \* the king steps between two attackers and a third moves next to it
      << <<3, 6, 4, 6>>, <<2, 3, 2, 5>>, <<4, 6, 4, 4>>, <<3, 3, 2, 3>>, <<1, 3, 1, 1>>,
         <<2, 3, 2, 1>>, <<3, 0, 2, 0>> >>
    >>

\* A recorded game of 513 moves from GameState::new.  Its first 511 moves
\* each produce a configuration not seen before, without a capture and
\* without a result, so that history_len reaches MAX_GAME_LENGTH; moves 509
\* to 512 are an attacker's move, a defender's move and the two moves back.
LongGame ==
    << <<1, 3, 1, 1>>, <<3, 2, 4, 2>>, <<3, 6, 4, 6>>, <<4, 3, 4, 4>>, <<4, 6, 5, 6>>,
       <<4, 2, 6, 2>>, <<3, 5, 5, 5>>, <<2, 3, 2, 2>>, <<1, 1, 2, 1>>, <<3, 3, 1, 3>>,
       <<5, 3, 5, 1>>, <<3, 4, 0, 4>>, <<5, 1, 5, 2>>, <<4, 4, 4, 3>>, <<5, 2, 5, 1>>,
       <<4, 3, 4, 0>>, <<5, 5, 5, 3>>, <<4, 0, 4, 4>>, <<3, 0, 5, 0>>, <<2, 2, 5, 2>>,
       <<2, 1, 2, 2>>, <<1, 3, 1, 0>>, <<3, 1, 3, 5>>, <<0, 4, 1, 4>>, <<0, 3, 0, 2>>,
       <<1, 4, 1, 2>>, <<0, 2, 0, 3>>, <<1, 2, 1, 5>>, <<5, 3, 1, 3>>, <<1, 5, 1, 6>>,
       <<1, 3, 4, 3>>, <<1, 0, 2, 0>>, <<3, 5, 3, 0>>, <<4, 4, 0, 4>>, <<2, 2, 0, 2>>,
       <<1, 6, 1, 1>>, <<6, 3, 6, 5>>, <<0, 4, 3, 4>>, <<0, 3, 1, 3>>, <<3, 4, 4, 4>>,
       <<1, 3, 1, 5>>, <<4, 4, 0, 4>>, <<3, 0, 3, 4>>, <<6, 2, 6, 3>>, <<5, 6, 4, 6>>,
       <<1, 1, 1, 0>>, <<1, 5, 1, 1>>, <<2, 0, 2, 5>>, <<0, 2, 1, 2>>, <<5, 2, 6, 2>>,
       <<1, 2, 0, 2>>, <<2, 5, 2, 3>>, <<0, 2, 4, 2>>, <<2, 3, 2, 0>>, <<4, 2, 4, 0>>,
       <<2, 0, 2, 3>>, <<6, 5, 3, 5>>, <<2, 3, 2, 5>>, <<4, 3, 4, 5>>, <<0, 4, 0, 2>>,
       <<5, 1, 5, 3>>, <<0, 2, 0, 3>>, <<4, 5, 4, 1>>, <<0, 3, 0, 4>>, <<5, 3, 2, 3>>,
       <<6, 3, 5, 3>>, <<2, 3, 0, 3>>, <<6, 2, 6, 1>>, <<3, 4, 6, 4>>, <<2, 5, 2, 0>>,
       <<1, 1, 1, 4>>, <<5, 3, 5, 4>>, <<4, 1, 4, 2>>, <<2, 0, 2, 5>>, <<1, 4, 1, 3>>,
       <<2, 5, 2, 3>>, <<4, 2, 3, 2>>, <<1, 0, 2, 0>>, <<1, 3, 1, 1>>, <<2, 3, 5, 3>>,
       <<3, 2, 4, 2>>, <<2, 0, 1, 0>>, <<4, 6, 4, 5>>, <<5, 4, 1, 4>>, <<4, 2, 4, 4>>,
       <<5, 3, 3, 3>>, <<1, 1, 0, 1>>, <<1, 4, 1, 5>>, <<4, 0, 4, 3>>, <<1, 5, 1, 1>>,
       <<4, 3, 4, 2>>, <<0, 4, 1, 4>>, <<6, 4, 6, 5>>, <<3, 3, 3, 4>>, <<4, 2, 3, 2>>,
       <<1, 4, 1, 5>>, <<6, 5, 6, 3>>, <<3, 4, 2, 4>>, <<4, 5, 5, 5>>, <<2, 4, 2, 3>>,
       <<4, 4, 4, 3>>, <<1, 5, 0, 5>>, <<5, 0, 5, 3>>, <<1, 1, 2, 1>>, <<3, 2, 1, 2>>,
       <<2, 1, 3, 1>>, <<0, 1, 0, 2>>, <<3, 1, 1, 1>>, <<3, 5, 3, 1>>, <<6, 1, 4, 1>>,
       <<4, 3, 4, 5>>, <<2, 3, 2, 0>>, <<1, 2, 3, 2>>, <<0, 5, 0, 4>>, <<3, 2, 3, 4>>,
       <<4, 1, 4, 4>>, <<6, 3, 6, 2>>, <<1, 1, 2, 1>>, <<3, 4, 2, 4>>, <<4, 4, 3, 4>>,
       <<5, 3, 5, 4>>, <<1, 0, 1, 2>>, <<5, 4, 6, 4>>, <<3, 4, 3, 5>>, <<2, 4, 4, 4>>,
       <<3, 5, 1, 5>>, <<4, 4, 4, 1>>, <<0, 4, 4, 4>>, <<0, 2, 0, 1>>, <<1, 2, 1, 1>>,
       <<3, 1, 3, 0>>, <<4, 4, 2, 4>>, <<0, 3, 6, 3>>, <<1, 5, 3, 5>>, <<6, 3, 4, 3>>,
       <<1, 1, 1, 3>>, <<6, 4, 6, 3>>, <<3, 5, 0, 5>>, <<3, 0, 5, 0>>, <<2, 0, 1, 0>>,
       <<4, 5, 2, 5>>, <<1, 3, 1, 6>>, <<5, 0, 3, 0>>, <<1, 6, 1, 3>>, <<5, 5, 5, 3>>,
       <<2, 4, 6, 4>>, <<5, 3, 5, 0>>, <<2, 1, 3, 1>>, <<0, 1, 0, 3>>, <<1, 0, 2, 0>>,
       <<5, 0, 5, 3>>, <<6, 4, 5, 4>>, <<3, 0, 5, 0>>, <<3, 1, 3, 2>>, <<4, 1, 6, 1>>,
       <<1, 3, 1, 4>>, <<0, 3, 0, 1>>, <<1, 4, 1, 0>>, <<4, 3, 4, 0>>, <<0, 5, 0, 4>>,
       <<4, 0, 4, 1>>, <<0, 4, 0, 5>>, <<6, 2, 4, 2>>, <<3, 2, 2, 2>>, <<5, 3, 5, 1>>,
       <<0, 5, 1, 5>>, <<2, 5, 3, 5>>, <<2, 2, 2, 6>>, <<6, 1, 6, 2>>, <<2, 0, 2, 3>>,
       <<4, 1, 1, 1>>, <<2, 3, 0, 3>>, <<1, 1, 3, 1>>, <<2, 6, 2, 2>>, <<3, 5, 6, 5>>,
       <<1, 5, 5, 5>>, <<4, 2, 4, 0>>, <<2, 2, 2, 1>>, <<4, 0, 3, 0>>, <<5, 4, 1, 4>>,
       <<6, 2, 6, 1>>, <<2, 1, 2, 2>>, <<0, 1, 1, 1>>, <<1, 4, 1, 5>>, <<6, 1, 6, 2>>,
       <<1, 5, 1, 4>>, <<5, 1, 5, 3>>, <<2, 2, 2, 4>>, <<1, 1, 1, 3>>, <<0, 3, 0, 5>>,
       <<6, 5, 6, 4>>, <<2, 4, 2, 6>>, <<6, 2, 0, 2>>, <<0, 5, 0, 3>>, <<3, 1, 3, 2>>,
       <<1, 0, 2, 0>>, <<0, 2, 1, 2>>, <<1, 4, 1, 6>>, <<1, 2, 1, 1>>, <<2, 0, 2, 5>>,
       <<5, 3, 5, 1>>, <<2, 5, 3, 5>>, <<6, 4, 3, 4>>, <<2, 6, 4, 6>>, <<3, 0, 2, 0>>,
       <<0, 3, 0, 1>>, <<2, 0, 2, 1>>, <<1, 6, 3, 6>>, <<6, 3, 4, 3>>, <<3, 6, 1, 6>>,
       <<1, 3, 1, 2>>, <<4, 6, 5, 6>>, <<1, 2, 1, 3>>, <<5, 6, 2, 6>>, <<1, 3, 1, 4>>,
       <<2, 6, 4, 6>>, <<1, 1, 1, 0>>, <<3, 5, 3, 6>>, <<5, 0, 2, 0>>, <<5, 5, 4, 5>>,
       <<2, 0, 5, 0>>, <<4, 6, 5, 6>>, <<2, 1, 2, 3>>, <<4, 5, 4, 6>>, <<5, 1, 5, 3>>,
       <<1, 6, 2, 6>>, <<1, 0, 1, 3>>, <<5, 6, 5, 4>>, <<1, 4, 0, 4>>, <<0, 1, 5, 1>>,
       <<0, 4, 0, 1>>, <<2, 6, 2, 5>>, <<1, 3, 0, 3>>, <<5, 4, 4, 4>>, <<4, 3, 4, 2>>,
       <<5, 1, 4, 1>>, <<2, 3, 2, 2>>, <<3, 6, 1, 6>>, <<2, 2, 2, 3>>, <<2, 5, 2, 6>>,
       <<2, 3, 2, 5>>, <<4, 1, 6, 1>>, <<5, 3, 2, 3>>, <<6, 1, 4, 1>>, <<2, 3, 2, 0>>,
       <<4, 1, 5, 1>>, <<3, 2, 3, 1>>, <<5, 1, 5, 4>>, <<0, 3, 4, 3>>, <<1, 6, 1, 1>>,
       <<4, 2, 6, 2>>, <<4, 4, 4, 5>>, <<3, 4, 3, 2>>, <<1, 1, 1, 6>>, <<6, 2, 5, 2>>,
       <<1, 6, 1, 1>>, <<5, 0, 4, 0>>, <<5, 4, 6, 4>>, <<5, 2, 4, 2>>, <<4, 5, 6, 5>>,
       <<2, 0, 2, 3>>, <<6, 4, 6, 1>>, <<0, 1, 0, 3>>, <<1, 1, 0, 1>>, <<3, 1, 3, 0>>,
       <<0, 1, 1, 1>>, <<2, 3, 1, 3>>, <<4, 6, 4, 5>>, <<2, 5, 2, 2>>, <<4, 5, 1, 5>>,
       <<2, 2, 2, 5>>, <<6, 1, 5, 1>>, <<2, 5, 5, 5>>, <<1, 1, 1, 2>>, <<4, 2, 6, 2>>,
       <<5, 1, 2, 1>>, <<5, 5, 5, 4>>, <<2, 1, 2, 5>>, <<4, 0, 4, 2>>, <<2, 5, 2, 4>>,
       <<5, 4, 5, 1>>, <<2, 4, 4, 4>>, <<1, 3, 1, 4>>, <<2, 6, 2, 2>>, <<5, 1, 5, 4>>,
       <<1, 5, 1, 6>>, <<5, 4, 5, 1>>, <<2, 2, 2, 5>>, <<5, 1, 5, 0>>, <<4, 4, 5, 4>>,
       <<3, 0, 1, 0>>, <<5, 4, 5, 2>>, <<1, 0, 2, 0>>, <<1, 6, 3, 6>>, <<2, 0, 2, 3>>,
       <<6, 5, 3, 5>>, <<1, 4, 1, 6>>, <<1, 2, 1, 0>>, <<3, 2, 3, 1>>, <<2, 5, 1, 5>>,
       <<4, 2, 3, 2>>, <<1, 5, 1, 2>>, <<1, 6, 1, 4>>, <<1, 2, 0, 2>>, <<1, 4, 4, 4>>,
       <<1, 0, 1, 5>>, <<4, 4, 3, 4>>, <<3, 5, 4, 5>>, <<4, 3, 4, 1>>, <<1, 5, 1, 1>>,
       <<2, 3, 2, 1>>, <<4, 5, 4, 4>>, <<4, 1, 5, 1>>, <<3, 6, 1, 6>>, <<0, 3, 6, 3>>,
       <<4, 4, 4, 5>>, <<2, 1, 2, 0>>, <<0, 2, 0, 3>>, <<6, 3, 6, 4>>, <<1, 1, 0, 1>>,
       <<3, 2, 2, 2>>, <<0, 1, 2, 1>>, <<3, 4, 1, 4>>, <<5, 2, 3, 2>>, <<6, 2, 6, 1>>,
       <<4, 5, 0, 5>>, <<1, 4, 2, 4>>, <<0, 3, 6, 3>>, <<2, 4, 5, 4>>, <<3, 2, 3, 6>>,
       <<5, 4, 5, 3>>, <<1, 6, 2, 6>>, <<3, 1, 3, 5>>, <<0, 5, 0, 1>>, <<5, 3, 1, 3>>,
       <<2, 6, 2, 5>>, <<1, 3, 1, 1>>, <<2, 5, 2, 6>>, <<2, 2, 5, 2>>, <<0, 1, 0, 3>>,
       <<3, 5, 1, 5>>, <<3, 6, 4, 6>>, <<5, 2, 4, 2>>, <<0, 3, 0, 4>>, <<1, 1, 1, 0>>,
       <<0, 4, 2, 4>>, <<2, 0, 4, 0>>, <<2, 6, 3, 6>>, <<1, 0, 3, 0>>, <<2, 4, 0, 4>>,
       <<1, 5, 1, 3>>, <<4, 6, 5, 6>>, <<5, 1, 5, 4>>, <<2, 1, 5, 1>>, <<4, 2, 4, 5>>,
       <<3, 6, 3, 2>>, <<5, 4, 3, 4>>, <<5, 1, 5, 3>>, <<1, 3, 1, 1>>, <<5, 3, 5, 2>>,
       <<1, 1, 2, 1>>, <<5, 6, 4, 6>>, <<4, 5, 5, 5>>, <<6, 3, 5, 3>>, <<4, 0, 4, 5>>,
       <<3, 2, 0, 2>>, <<6, 1, 4, 1>>, <<0, 2, 1, 2>>, <<3, 4, 3, 5>>, <<1, 2, 1, 4>>,
       <<6, 4, 5, 4>>, <<5, 3, 1, 3>>, <<4, 5, 4, 2>>, <<0, 4, 0, 2>>, <<2, 1, 2, 5>>,
       <<1, 4, 4, 4>>, <<2, 5, 1, 5>>, <<4, 4, 4, 5>>, <<3, 5, 3, 4>>, <<1, 3, 4, 3>>,
       <<4, 2, 3, 2>>, <<0, 2, 0, 4>>, <<5, 0, 5, 1>>, <<0, 4, 0, 1>>, <<1, 5, 1, 2>>,
       <<4, 5, 1, 5>>, <<4, 1, 1, 1>>, <<4, 6, 4, 5>>, <<5, 1, 5, 0>>, <<5, 2, 5, 3>>,
       <<5, 4, 6, 4>>, <<1, 5, 2, 5>>, <<1, 1, 5, 1>>, <<2, 5, 2, 1>>, <<3, 2, 6, 2>>,
       <<4, 3, 2, 3>>, <<6, 2, 2, 2>>, <<4, 5, 0, 5>>, <<5, 5, 5, 4>>, <<0, 1, 0, 2>>,
       <<5, 1, 3, 1>>, <<5, 3, 5, 2>>, <<6, 4, 6, 1>>, <<0, 2, 0, 1>>, <<5, 4, 5, 3>>,
       <<0, 1, 1, 1>>, <<5, 3, 6, 3>>, <<2, 1, 2, 0>>, <<1, 2, 0, 2>>, <<0, 5, 1, 5>>,
       <<2, 2, 2, 1>>, <<2, 3, 0, 3>>, <<3, 4, 1, 4>>, <<5, 2, 5, 6>>, <<0, 2, 6, 2>>,
       <<5, 6, 5, 2>>, <<6, 3, 1, 3>>, <<1, 5, 0, 5>>, <<1, 3, 4, 3>>, <<1, 1, 0, 1>>,
       <<4, 3, 4, 0>>, <<0, 3, 1, 3>>, <<4, 0, 4, 4>>, <<5, 2, 5, 1>>, <<4, 4, 3, 4>>,
       <<0, 1, 0, 2>>, <<3, 1, 3, 2>>, <<0, 5, 6, 5>>, <<3, 2, 3, 1>>, <<1, 3, 1, 0>>,
       <<3, 4, 5, 4>>, <<6, 5, 1, 5>>, <<3, 1, 3, 6>>, <<5, 1, 3, 1>>, <<5, 0, 5, 2>>,
       <<1, 0, 1, 2>>, <<3, 0, 4, 0>>, <<1, 5, 4, 5>>, <<2, 1, 2, 2>>, <<4, 5, 4, 2>>,
       <<4, 0, 5, 0>>, <<4, 2, 4, 5>>, <<1, 4, 1, 5>>, <<0, 2, 0, 5>>, <<5, 4, 5, 6>>,
       <<1, 2, 0, 2>>, <<6, 2, 6, 3>>, <<3, 1, 1, 1>>, <<3, 6, 3, 1>>, <<0, 2, 0, 1>>,
       <<5, 6, 3, 6>>, <<2, 0, 3, 0>>, <<3, 1, 3, 2>>, <<0, 1, 0, 3>>, <<3, 2, 3, 4>>,
       <<4, 5, 4, 1>>, <<1, 5, 1, 2>>, <<4, 1, 4, 4>>, <<2, 2, 4, 2>>, <<0, 5, 5, 5>>,
       <<1, 2, 1, 4>>, <<5, 5, 5, 3>>, <<3, 6, 4, 6>>, <<4, 4, 4, 5>>, <<6, 1, 5, 1>>,
       <<0, 3, 0, 4>>, <<5, 1, 3, 1>>, <<5, 3, 2, 3>>, <<3, 4, 2, 4>>, <<1, 1, 1, 0>>,
       <<4, 6, 5, 6>>, <<4, 5, 6, 5>>, <<2, 4, 2, 5>>, <<6, 5, 6, 4>>, <<4, 2, 0, 2>>,
       <<2, 3, 1, 3>>, <<3, 1, 6, 1>>, <<1, 3, 0, 3>>, <<5, 6, 2, 6>>, <<1, 0, 1, 3>>,
       <<6, 3, 4, 3>>, <<1, 3, 2, 3>>, <<5, 2, 2, 2>>, <<6, 4, 5, 4>>, <<5, 0, 5, 3>>,
       <<5, 4, 6, 4>>, <<6, 1, 4, 1>>, <<6, 4, 5, 4>>, <<2, 5, 1, 5>>, <<3, 0, 3, 5>>,
       <<1, 4, 1, 0>>, <<0, 3, 1, 3>>, <<1, 0, 4, 0>>, <<1, 3, 0, 3>>, <<2, 6, 3, 6>>,
       <<2, 3, 2, 6>>, <<4, 1, 3, 1>>, <<5, 4, 2, 4>>, <<0, 2, 1, 2>>, <<2, 4, 2, 5>>,
       <<1, 2, 1, 0>>, <<3, 5, 3, 2>>, <<4, 0, 5, 0>>, <<3, 2, 4, 2>>, <<2, 2, 1, 2>>,
       <<4, 2, 3, 2>>, <<3, 6, 5, 6>>, <<0, 4, 3, 4>>, <<1, 0, 2, 0>>, <<0, 3, 1, 3>>,
       <<2, 0, 1, 0>>, <<1, 3, 0, 3>>, <<1, 0, 2, 0>> >>

\* The number of moves a run may play off its recorded game.
MaxFree == 1

VARIABLES
    state,  \* the GameState
    last,   \* the state move_piece was last called on, and its argument
    game,   \* the recorded games (or table scripts) the run has followed so far
    free,   \* the number of moves (or table operations) played off the record
    engine, \* the MCTS
    tlast,  \* the last table operation: its number, the operation, the engine before it
    search  \* the move decision under way: where get_move is, and its locals

vars == <<state, last, game, free, engine, tlast, search>>

\* McstBot::default(): the engine of the plugin.
DefaultEngine == MCTS_new(200000, ParallelHeavy(WordOf(8)))

NoOperation == [n |-> 0, op |-> <<>>, before |-> DefaultEngine]

\* No move decision has begun.
NoSearch ==
    [phase |-> "idle", root_visits |-> {}, root_wins |-> {}, passes |-> 0,
     trail |-> <<>>, leaf |-> [kind |-> "none"], instant |-> FALSE,
     returned |-> {}, selected |-> <<>>]

Init ==
    /\ state = new
    /\ last = [pre |-> new, move |-> <<>>]
    /\ game = 1..Len(Games)
    /\ free = 0
    /\ engine = DefaultEngine
    /\ tlast = NoOperation
    /\ search = NoSearch

\* The recorded games among `game` whose next move is coords.
Following(coords) ==
    {g \in game : /\ state.ply_count < Len(Games[g])
                  /\ Games[g][state.ply_count + 1] = coords}

\* A caller takes a move from get_legal_moves and calls move_piece with it.
MovePiece ==
    /\ IF free < MaxFree THEN TRUE
       ELSE \E g \in game : state.ply_count < Len(Games[g])
    /\ \E coords \in SeqRange(get_legal_moves(state, FALSE)) :
        /\ IF Following(coords) # {} THEN TRUE ELSE free < MaxFree
        /\ state' = move_piece(state, coords)
        /\ last' = [pre |-> state, move |-> coords]
        /\ free' = IF Following(coords) # {} THEN free ELSE free + 1
        /\ game' = Following(coords)
    /\ UNCHANGED <<engine, tlast, search>>

Next == MovePiece

Spec == Init /\ [][Next]_vars

\* The same caller playing the long recorded game and nothing else.
InitLong ==
    /\ state = new
    /\ last = [pre |-> new, move |-> <<>>]
    /\ game = {}
    /\ free = 0
    /\ engine = DefaultEngine
    /\ tlast = NoOperation
    /\ search = NoSearch

MovePieceLong ==
    /\ state.ply_count < Len(LongGame)
    /\ LET coords == LongGame[state.ply_count + 1]
       IN  /\ coords \in SeqRange(get_legal_moves(state, FALSE))
           /\ state' = move_piece(state, coords)
           /\ last' = [pre |-> state, move |-> coords]
    /\ UNCHANGED <<game, free, engine, tlast, search>>

NextLong == MovePieceLong

SpecLong == InitLong /\ [][NextLong]_vars

\* ------------------------------------------------------------------------
\* The table operations of the search
\* ------------------------------------------------------------------------
\* The search reaches the table through four operations: increase_generation
\* at the start of a move decision, add_entry for the child it expands, the
\* backpropagation into the selected child, and mark_terminal.  Here they are
\* applied to the hashes of one bucket, with the hash and the playout result
\* as inputs.

\* The highest tag (the upper 40 bits) of the hashes used.
MaxTag == 5

\* The hash with the given upper 40 bits, of bucket 0.
HashOfTag(tag) == Shl(WordOf(tag), TT_DIM_BITS)

TTHashes == {HashOfTag(tag) : tag \in 0..MaxTag}

Scores == {WIN, LOSS, DRAW}

\* An engine that has taken its first AgedGeneration move decisions without
\* touching the bucket.
AgedGeneration == (2 ^ GEN_BITS) - 2

Aged(self) ==
    [self EXCEPT !.generation = AgedGeneration,
                 !.generation_bound = AgedGeneration - self.generation_range]

OpIncrease == <<"increase_generation">>

OpAdd(tag) == <<"add_entry", HashOfTag(tag)>>

OpBack(tag, score) == <<"backpropagate", HashOfTag(tag), score>>

OpMark(tag, score) == <<"mark_terminal", HashOfTag(tag), score>>

OpSelect(tag) == <<"select", HashOfTag(tag)>>

OpReturn(tag, score) == <<"return", HashOfTag(tag), score>>

\* Recorded runs: the engine at the start and the operations applied to it.
TTScripts ==
    <<
      \* a full bucket whose entries age; a refresh; a stale eviction
      [engine |-> MCTS_new(3, ParallelHeavy(WordOf(8))),
       ops |-> << OpIncrease, OpAdd(1), OpBack(1, WIN), OpBack(1, LOSS), OpAdd(2),
                  OpBack(2, WIN), OpAdd(3), OpBack(3, DRAW), OpBack(3, WIN),
                  OpBack(3, WIN), OpAdd(4), OpBack(4, LOSS), OpIncrease,
                  OpIncrease, OpAdd(1), OpAdd(5), OpBack(5, WIN), OpAdd(0) >>],
      \* a full bucket of fresh entries; a capacity collision
      [engine |-> MCTS_new(2, Light),
       ops |-> << OpIncrease, OpAdd(1), OpBack(1, WIN), OpBack(1, WIN), OpAdd(2),
                  OpBack(2, LOSS), OpAdd(0), OpBack(0, WIN), OpAdd(3),
                  OpBack(3, DRAW), OpAdd(4), OpAdd(5), OpAdd(1) >>],
      \* solved entries
      [engine |-> MCTS_new(2, Light),
       ops |-> << OpIncrease, OpAdd(1), OpBack(1, WIN), OpMark(1, LOSS),
                  OpBack(1, LOSS), OpMark(2, WIN), OpBack(2, WIN), OpAdd(1),
                  OpIncrease, OpMark(3, LOSS), OpAdd(4), OpIncrease, OpAdd(5),
                  OpAdd(0) >>],
      \* the generations around 2^GEN_BITS
      [engine |-> Aged(DefaultEngine),
       ops |-> << OpIncrease, OpAdd(1), OpBack(1, WIN), OpBack(1, LOSS), OpAdd(2),
                  OpIncrease, OpAdd(1), OpAdd(0), OpAdd(3), OpBack(3, WIN),
                  OpAdd(4), OpAdd(5), OpAdd(2), OpMark(2, WIN) >>],
      \* large batches
      [engine |-> MCTS_new(2, ParallelLight({WINS_BITS - 2})),
       ops |-> << OpIncrease, OpAdd(1), OpBack(1, WIN), OpAdd(2), OpBack(2, DRAW),
                  OpBack(2, LOSS) >>],
      [engine |-> MCTS_new(2, ParallelLight({VISITS_BITS})),
       ops |-> << OpIncrease, OpAdd(1), OpBack(1, LOSS), OpAdd(2), OpBack(2, DRAW) >>],
      \* five passes from a root with one move, to the position of hash 1,
      \* which has three moves, to 2, 3 and 4; the fifth pass goes down to 2
      \* and expands its child 5
      [engine |-> MCTS_new(8, Light),
       ops |-> << OpIncrease, OpAdd(1), OpBack(1, WIN),
                  OpSelect(1), OpAdd(2), OpBack(2, LOSS), OpReturn(1, WIN),
                  OpSelect(1), OpAdd(3), OpBack(3, DRAW), OpReturn(1, DRAW),
                  OpSelect(1), OpAdd(4), OpBack(4, WIN), OpReturn(1, LOSS),
                  OpSelect(1), OpSelect(2), OpAdd(5), OpBack(5, WIN),
                  OpReturn(2, LOSS), OpReturn(1, WIN) >>]
    >>

\* The number of operations a run may apply off its script.
MaxFreeTT == 1

InitTT ==
    /\ state = new
    /\ last = [pre |-> new, move |-> <<>>]
    /\ free = 0
    /\ \E g \in 1..Len(TTScripts) :
        /\ game = {g}
        /\ engine = TTScripts[g].engine
        /\ tlast = [n |-> 0, op |-> <<>>, before |-> TTScripts[g].engine]
    /\ search = NoSearch

\* The scripts among `game` whose next operation is op.
FollowingTT(op) ==
    {g \in game : /\ tlast.n - free < Len(TTScripts[g].ops)
                  /\ TTScripts[g].ops[tlast.n - free + 1] = op}

\* op is the next operation of the script, or one more operation off it.
Allowed(op) == IF FollowingTT(op) # {} THEN TRUE ELSE free < MaxFreeTT

\* The bookkeeping of an operation.
Booked(op) ==
    /\ tlast' = [n |-> tlast.n + 1, op |-> op, before |-> engine]
    /\ free' = IF FollowingTT(op) # {} THEN free ELSE free + 1
    /\ UNCHANGED <<state, last, game>>

\* The same for an operation that leaves the pass where it is.
Record(op) == Booked(op) /\ UNCHANGED search

\* start_search: a move decision begins.
IncreaseGeneration ==
    /\ Allowed(OpIncrease)
    /\ ~increase_generation_panics(engine)
    /\ engine' = increase_generation(engine)
    /\ Record(OpIncrease)

\* selection, expansion: the selected child is added to the table.
Expand ==
    \E hash \in TTHashes :
        /\ Allowed(<<"add_entry", hash>>)
        /\ engine.generation >= 1
        /\ engine' = AddToTable(engine, hash)
        /\ Record(<<"add_entry", hash>>)

\* selection, backpropagation: the result of the batch goes to the child.
BackpropagateResult ==
    \E hash \in TTHashes, score \in Scores :
        /\ Allowed(<<"backpropagate", hash, score>>)
        /\ engine.generation >= 1
        /\ engine' = Backpropagate(engine, hash, Scaled(score, get_batch_size(engine)))
        /\ Record(<<"backpropagate", hash, score>>)

\* selection: a terminal position, or a position with a proven winning move.
MarkTerminal ==
    \E hash \in TTHashes, score \in {WIN, LOSS} :
        /\ Allowed(<<"mark_terminal", hash, score>>)
        /\ engine.generation >= 1
        /\ engine' = mark_terminal(engine, hash, score)
        /\ Record(<<"mark_terminal", hash, score>>)

\* The hash of the root of the search, of another bucket.
RootHash == HashOfTag(0) \cup {0}

\* selection, the choice of a child that was visited (its entry is in the
\* table with visits > 0) and the recursive call: search.selected lists the
\* children selected and not yet returned from, the deepest last.
SelectChild ==
    \E hash \in TTHashes :
        /\ Allowed(<<"select", hash>>)
        /\ engine.generation >= 1
        /\ Len(search.selected) < MaxDepth
        /\ \E e \in Probe(engine, hash) : get_n_visits(e) # {}
        /\ engine' = engine
        /\ search' = [search EXCEPT !.selected = Append(@, hash), !.trail = <<>>]
        /\ Booked(<<"select", hash>>)

\* selection, the recursive call returns the result of the child selected
\* last: the backpropagation and the solver propagation of the node that
\* selected it (the child selected before it, or the root).
ReturnFromChild ==
    \E score \in Scores :
        /\ search.selected # <<>>
        /\ LET depth == Len(search.selected)
               child == search.selected[depth]
               node == IF depth > 1 THEN search.selected[depth - 1] ELSE RootHash
               o == SelectionReturn(engine, node, child,
                                    Scaled(score, get_batch_size(engine)), <<>>)
           IN  /\ Allowed(<<"return", child, score>>)
               /\ engine' = o.engine
               /\ search' = [search EXCEPT !.selected = SubSeq(@, 1, depth - 1),
                                           !.trail = o.trail]
               /\ Booked(<<"return", child, score>>)

NextTT ==
    \/ IncreaseGeneration
    \/ Expand
    \/ BackpropagateResult
    \/ MarkTerminal
    \/ SelectChild
    \/ ReturnFromChild

SpecTT == InitTT /\ [][NextTT]_vars

\* ------------------------------------------------------------------------
\* The state machine of a move decision (lib.rs, mcts.rs)
\* ------------------------------------------------------------------------
\* Games the arena reports to the bot move by move through notify_move, the
\* side the arena gave the bot in game_start, and the engine the bot was
\* built with; at the end of the record the arena asks the bot for its move.
SearchGames ==
    << \* White to move, two moves, after each of them Black captures the king
       [player |-> "Defenders",
        engine |-> MCTS_new(5, Light),
        moves |->
    << <<5, 3, 5, 1>>, <<4, 3, 4, 6>>, <<5, 1, 5, 6>>, <<2, 3, 2, 5>>, <<1, 3, 1, 5>>,
       <<3, 4, 0, 4>>, <<1, 5, 0, 5>>, <<3, 3, 2, 3>>, <<6, 3, 6, 2>>, <<3, 2, 0, 2>>,
       <<3, 1, 0, 1>>, <<2, 3, 2, 6>>, <<3, 5, 2, 5>>, <<2, 6, 1, 6>>, <<6, 2, 3, 2>>,
       <<1, 6, 1, 5>>, <<0, 3, 1, 3>> >>],
       \* Black to move, one move, after which White's king cannot be stopped
       [player |-> "Attackers",
        engine |-> MCTS_new(4, Light),
        moves |->
    << <<0, 3, 0, 5>>, <<3, 4, 0, 4>>, <<5, 3, 5, 4>>, <<0, 4, 0, 3>>, <<3, 1, 5, 1>>,
       <<4, 3, 4, 2>>, <<5, 1, 0, 1>>, <<3, 2, 0, 2>>, <<5, 4, 5, 6>>, <<0, 3, 1, 3>>,
       <<3, 0, 5, 0>>, <<4, 2, 4, 0>>, <<3, 5, 6, 5>>, <<4, 0, 4, 6>>, <<3, 6, 1, 6>>,
       <<4, 6, 2, 6>>, <<6, 3, 5, 3>>, <<1, 3, 1, 0>>, <<5, 3, 5, 1>>, <<0, 2, 0, 5>>,
       <<6, 5, 4, 5>>, <<3, 3, 3, 0>>, <<5, 1, 5, 0>>, <<2, 3, 2, 4>>, <<5, 0, 5, 6>>,
       <<2, 6, 4, 6>>, <<4, 5, 4, 0>>, <<4, 6, 4, 1>> >>],
       \* White to move, one move, the king's step to an empty edge
       [player |-> "Defenders",
        engine |-> DefaultEngine,
        moves |->
    << <<1, 3, 1, 5>>, <<3, 4, 1, 4>>, <<0, 3, 1, 3>>, <<3, 2, 5, 2>>, <<3, 1, 5, 1>>,
       <<4, 3, 4, 1>>, <<3, 0, 3, 1>>, <<2, 3, 2, 4>>, <<6, 3, 6, 4>>, <<2, 4, 2, 6>>,
       <<1, 5, 1, 6>>, <<3, 3, 2, 3>>, <<1, 6, 1, 4>>, <<2, 3, 2, 5>>, <<3, 1, 3, 0>>,
       <<2, 5, 2, 2>>, <<1, 3, 4, 3>>, <<2, 2, 0, 2>>, <<3, 6, 4, 6>>, <<0, 2, 4, 2>>,
       <<4, 3, 2, 3>>, <<4, 2, 0, 2>>, <<1, 4, 2, 4>>, <<0, 2, 6, 2>>, <<6, 4, 3, 4>>,
       <<6, 2, 4, 2>>, <<2, 4, 2, 6>>, <<4, 2, 3, 2>>, <<2, 3, 2, 2>>, <<3, 2, 6, 2>>,
       <<2, 2, 4, 2>>, <<6, 2, 6, 1>>, <<3, 0, 1, 0>>, <<6, 1, 6, 2>>, <<3, 5, 0, 5>>,
       <<6, 2, 5, 2>>, <<1, 0, 1, 2>> >>],
       \* White to move, one move that repeats no position; the king can also
       \* step to an empty edge, where it has stood before
       [player |-> "Defenders",
        engine |-> DefaultEngine,
        moves |->
    << <<0, 3, 0, 2>>, <<4, 3, 4, 4>>, <<5, 3, 5, 2>>, <<3, 2, 1, 2>>, <<5, 2, 2, 2>>,
       <<3, 4, 0, 4>>, <<3, 1, 3, 2>>, <<0, 4, 0, 3>>, <<3, 2, 4, 2>>, <<4, 4, 1, 4>>,
       <<3, 0, 3, 1>>, <<1, 4, 4, 4>>, <<2, 2, 1, 2>>, <<0, 3, 0, 4>>, <<1, 2, 1, 5>>,
       <<4, 4, 5, 4>>, <<3, 6, 5, 6>>, <<5, 4, 5, 2>>, <<6, 3, 6, 2>>, <<3, 3, 3, 2>>,
       <<1, 5, 1, 3>>, <<0, 4, 6, 4>>, <<0, 2, 0, 5>>, <<6, 4, 0, 4>>, <<6, 2, 6, 4>>,
       <<0, 4, 0, 2>>, <<6, 4, 0, 4>>, <<3, 2, 3, 3>>, <<5, 6, 5, 5>>, <<3, 3, 5, 3>>,
       <<4, 2, 4, 6>>, <<0, 2, 0, 1>>, <<0, 4, 0, 2>>, <<5, 3, 5, 1>>, <<1, 3, 1, 2>>,
       <<5, 1, 5, 4>>, <<4, 6, 5, 6>>, <<5, 4, 1, 4>>, <<0, 2, 0, 5>>, <<1, 4, 0, 4>>,
       <<3, 1, 2, 1>>, <<0, 4, 0, 1>>, <<2, 1, 2, 6>>, <<0, 1, 1, 1>>, <<2, 6, 2, 1>> >>],
       \* White to move, two moves, each of them leaves a drawn game
       [player |-> "Defenders",
        engine |-> MCTS_new(5, Light),
        moves |->
    << <<1, 3, 1, 1>>, <<2, 3, 2, 2>>, <<3, 5, 1, 5>>, <<3, 3, 1, 3>>, <<5, 3, 5, 6>>,
       <<4, 3, 4, 6>>, <<1, 5, 3, 5>>, <<2, 2, 2, 6>>, <<0, 3, 0, 2>>, <<4, 6, 4, 3>>,
       <<6, 3, 5, 3>>, <<3, 2, 1, 2>>, <<5, 3, 6, 3>>, <<1, 3, 5, 3>>, <<3, 5, 6, 5>>,
       <<1, 2, 1, 6>>, <<1, 1, 1, 2>>, <<5, 3, 5, 6>>, <<6, 3, 6, 4>>, <<5, 6, 5, 1>>,
       <<6, 5, 1, 5>>, <<2, 6, 2, 4>>, <<1, 5, 3, 5>>, <<1, 6, 1, 5>>, <<1, 2, 1, 1>>,
       <<2, 4, 2, 6>>, <<0, 2, 5, 2>>, <<2, 6, 2, 1>>, <<5, 2, 3, 2>>, <<5, 1, 4, 1>>,
       <<3, 2, 3, 1>>, <<4, 1, 4, 4>>, <<1, 1, 1, 2>>, <<4, 4, 4, 0>>, <<3, 1, 1, 1>>,
       <<4, 0, 4, 3>>, <<3, 0, 4, 0>>, <<4, 3, 4, 2>>, <<1, 1, 6, 1>>, <<4, 2, 6, 2>>,
       <<6, 4, 1, 4>>, <<6, 2, 5, 2>>, <<3, 5, 3, 0>>, <<5, 2, 5, 4>>, <<1, 2, 0, 2>>,
       <<1, 5, 2, 5>>, <<0, 2, 5, 2>>, <<2, 5, 2, 0>>, <<1, 4, 1, 0>>, <<5, 4, 2, 4>>,
       <<3, 0, 3, 1>>, <<2, 4, 2, 0>>, <<3, 1, 1, 1>>, <<2, 0, 1, 0>>, <<1, 1, 1, 5>>,
       <<1, 0, 1, 2>>, <<1, 5, 1, 6>>, <<1, 2, 0, 2>>, <<1, 6, 1, 0>>, <<0, 2, 3, 2>>,
       <<5, 2, 6, 2>>, <<3, 2, 3, 0>>, <<6, 2, 3, 2>> >>],
       \* White to move, eight moves, the first leaves a drawn game; each
       \* expansion runs a batch of SOLVED_THRESHOLD playouts
       [player |-> "Defenders",
        engine |-> MCTS_new(3, ParallelLight(SOLVED_THRESHOLD)),
        moves |->
    << <<3, 5, 4, 5>>, <<3, 4, 6, 4>>, <<4, 5, 6, 5>>, <<3, 2, 6, 2>>, <<3, 1, 6, 1>>,
       <<4, 3, 4, 4>>, <<3, 0, 5, 0>>, <<4, 4, 4, 0>>, <<6, 1, 5, 1>>, <<3, 3, 3, 5>>,
       <<3, 6, 2, 6>>, <<3, 5, 3, 1>>, <<2, 6, 5, 6>>, <<4, 0, 4, 6>>, <<5, 3, 5, 4>>,
       <<4, 6, 4, 4>>, <<6, 5, 6, 4>>, <<4, 4, 2, 4>>, <<5, 1, 5, 0>>, <<3, 1, 3, 2>>,
       <<0, 3, 0, 1>>, <<3, 2, 0, 2>>, <<6, 4, 6, 5>>, <<0, 2, 0, 3>>, <<5, 0, 3, 0>>,
       <<2, 3, 4, 3>>, <<5, 4, 5, 3>>, <<2, 4, 6, 4>>, <<3, 0, 4, 0>>, <<0, 3, 0, 2>>,
       <<5, 3, 5, 2>>, <<0, 2, 0, 3>>, <<6, 3, 6, 2>>, <<0, 3, 6, 3>>, <<4, 0, 4, 3>> >>],
       \* White to move, the king's one move goes back to a position of the
       \* game, so that get_legal_moves(.., true) is empty
       [player |-> "Defenders",
        engine |-> MCTS_new(3, Light),
        moves |->
    << <<0, 3, 0, 2>>, <<3, 4, 1, 4>>, <<3, 5, 1, 5>>, <<4, 3, 4, 1>>, <<5, 3, 5, 1>>,
       <<2, 3, 2, 5>>, <<3, 6, 3, 5>>, <<3, 2, 5, 2>>, <<6, 3, 5, 3>>, <<3, 3, 4, 3>>,
       <<3, 0, 5, 0>>, <<4, 3, 4, 2>>, <<5, 1, 6, 1>>, <<4, 2, 4, 1>>, <<3, 5, 4, 5>>,
       <<4, 1, 5, 1>>, <<4, 5, 4, 0>>, <<5, 1, 5, 2>>, <<0, 2, 4, 2>>, <<5, 2, 5, 1>>,
       <<1, 5, 6, 5>>, <<5, 1, 4, 1>>, <<6, 5, 6, 2>>, <<4, 1, 5, 1>>, <<1, 3, 0, 3>>,
       <<5, 1, 5, 2>>, <<0, 3, 1, 3>> >>],
       \* Black to move, the defenders' last move has brought back the
       \* starting position: the repetition flag of the root is set
       [player |-> "Attackers",
        engine |-> MCTS_new(3, Light),
        moves |->
    << <<0, 3, 0, 2>>, <<3, 4, 1, 4>>, <<0, 2, 0, 3>>, <<1, 4, 3, 4>> >>],
       \* White to move, the king has a free line to a corner
       [player |-> "Defenders",
        engine |-> MCTS_new(3, Light),
        moves |->
    << <<3, 1, 0, 1>>, <<3, 2, 1, 2>>, <<3, 0, 4, 0>>, <<3, 3, 3, 0>>, <<5, 3, 5, 0>> >>],
       \* Black to move, an attacker's move captures the king
       [player |-> "Attackers",
        engine |-> MCTS_new(3, Light),
        moves |->
    << <<1, 3, 1, 6>>, <<2, 3, 2, 0>>, <<1, 6, 2, 6>>, <<3, 3, 1, 3>> >>],
       \* White to move after the attackers' first move of a match
       [player |-> "Defenders",
        engine |-> MCTS_new(2, Light),
        moves |-> << <<0, 3, 0, 2>> >>],
       \* Black to move, the king has left the throne and an attacker stands
       \* on the throne's file with the squares beyond it empty
       [player |-> "Attackers",
        engine |-> MCTS_new(2, Light),
        moves |->
    << <<1, 3, 1, 5>>, <<3, 4, 1, 4>>, <<0, 3, 1, 3>>, <<3, 2, 5, 2>>, <<3, 1, 5, 1>>,
       <<4, 3, 4, 1>>, <<3, 0, 3, 1>>, <<2, 3, 2, 4>>, <<6, 3, 6, 4>>, <<2, 4, 2, 6>>,
       <<1, 5, 1, 6>>, <<3, 3, 2, 3>>, <<1, 6, 1, 4>>, <<2, 3, 2, 5>>, <<3, 1, 3, 0>>,
       <<2, 5, 2, 2>> >>]
    >>

\* McstBot::game_start: the bot's GameState takes the bot's side as the
\* player to move; the hash is left as it is.
game_start(s, player) ==
    [s EXCEPT !.player = IF player = "Attackers" THEN "B" ELSE "W"]

\* The player the arena's state has to move after the moves reported: the
\* attackers move first and the sides alternate (game.rs, make_move).
current_player(s) == IF s.ply_count % 2 = 0 THEN "Attackers" ELSE "Defenders"

\* McstBot::get_move, after the test of has_legal_move: the player of the
\* bot's GameState is set from the arena's state.
WithArenaPlayer(s) ==
    [s EXCEPT !.player = IF current_player(s) = "Attackers" THEN "B" ELSE "W"]

InitSearch ==
    /\ last = [pre |-> new, move |-> <<>>]
    /\ free = 0
    /\ \E g \in 1..Len(SearchGames) :
        /\ game = {g}
        /\ state = game_start(new, SearchGames[g].player)
        /\ engine = SearchGames[g].engine
    /\ tlast = NoOperation
    /\ search = NoSearch

\* McstBot::notify_move: the next move of the game is applied to the bot's
\* GameState.
NotifyMove ==
    /\ search.phase = "idle"
    /\ \E g \in game :
        /\ state.ply_count < Len(SearchGames[g].moves)
        /\ state' = move_piece(state, SearchGames[g].moves[state.ply_count + 1])
        /\ last' = [pre |-> state, move |-> SearchGames[g].moves[state.ply_count + 1]]
    /\ UNCHANGED <<game, free, engine, tlast, search>>

\* McstBot::get_move is called at the end of the record and goes on to
\* computer_move: has_legal_move holds of the player the bot's GameState
\* has at that moment.
AskedForMove ==
    /\ search.phase = "idle"
    /\ \A g \in game : state.ply_count >= Len(SearchGames[g].moves)
    /\ has_legal_move(state, state.player)

\* MCTS::get_move, a heuristic finds a winning move: it is returned without
\* a search.
GetMoveInstant ==
    /\ AskedForMove
    /\ InstantWin(WithArenaPlayer(state)) # {}
    /\ state' = WithArenaPlayer(state)
    /\ search' = [NoSearch EXCEPT !.phase = "returned",
                                  !.instant = TRUE,
                                  !.returned = InstantWin(WithArenaPlayer(state))]
    /\ UNCHANGED <<last, game, free, engine, tlast>>

\* MCTS::get_move, no heuristic applies: start_search begins.
StartSearch ==
    /\ AskedForMove
    /\ InstantWin(WithArenaPlayer(state)) = {}
    /\ ~increase_generation_panics(engine)
    /\ state' = WithArenaPlayer(state)
    /\ LET begun == start_search_begin(engine, WithArenaPlayer(state))
       IN  /\ engine' = begun.engine
           /\ search' = [NoSearch EXCEPT
                  !.phase = "searching",
                  !.root_visits = begun.root_visits,
                  !.root_wins = begun.root_wins,
                  !.passes = IF engine.iterations_per_move >= 1
                             THEN engine.iterations_per_move - 1 ELSE 0]
    /\ UNCHANGED <<last, game, free, tlast>>

\* start_search, one turn of the loop: a selection pass from the root.
SelectionPass ==
    /\ search.phase = "searching"
    /\ search.passes > 0
    /\ \E o \in selection(engine, state, search.root_visits, 0) :
        /\ engine' = o.engine
        /\ search' = [search EXCEPT !.root_wins = Add64(@, o.result),
                                    !.root_visits = Add64(@, get_batch_size(engine)),
                                    !.passes = @ - 1,
                                    !.trail = o.trail,
                                    !.leaf = o.leaf]
    /\ UNCHANGED <<state, last, game, free, tlast>>

\* start_search after the loop, and the choice of the move in get_move.
\* With no move to choose from, choose(..).unwrap() panics.
FinishSearch ==
    /\ search.phase = "searching"
    /\ search.passes = 0
    /\ LET written == start_search_end(engine, state, search.root_visits,
                                       search.root_wins)
       IN  /\ engine' = written
           /\ IF ChooseBestMove(written, state) = {}
              THEN search' = [search EXCEPT !.phase = "panicked"]
              ELSE \E m \in ChooseBestMove(written, state) :
                      search' = [search EXCEPT !.phase = "returned",
                                               !.returned = {m}]
    /\ UNCHANGED <<state, last, game, free, tlast>>

\* computer_move: the move get_move returned is played.
ComputerMove ==
    /\ search.phase = "returned"
    /\ \E m \in search.returned :
        /\ state' = move_piece(state, m)
        /\ last' = [pre |-> state, move |-> m]
    /\ search' = [search EXCEPT !.phase = "moved"]
    /\ UNCHANGED <<game, free, engine, tlast>>

NextSearch ==
    \/ NotifyMove
    \/ GetMoveInstant
    \/ StartSearch
    \/ SelectionPass
    \/ FinishSearch
    \/ ComputerMove

SpecSearch == InitSearch /\ [][NextSearch]_vars

\* ------------------------------------------------------------------------
\* Properties
\* ------------------------------------------------------------------------
\* move_piece has been called at least once.
Moved == last.move # <<>>

pre == last.pre

src_of(coords) == idx(coords[1], coords[2])

dst_of(coords) == idx(coords[3], coords[4])

\* The XOR of the keys of every occupied (square, piece type) pair, and of
\* the black_to_move key when the attacker is to move.
FullHash(s) ==
    {z_table(Row(i), Col(i), 0) : i \in s.black_pieces}
    \cup {z_table(Row(i), Col(i), 1) : i \in s.white_pieces}
    \cup {z_table(Row(i), Col(i), 2) : i \in s.king_piece}
    \cup (IF s.player = "B" THEN {black_to_move} ELSE {})

\* C1: after new and after every sequence of legal moves, the incrementally
\* maintained hash equals the from-scratch XOR of the keys of the occupied
\* (square, piece type) pairs and of the side key when the attacker is to move.
C1_HashIsFullHash == state.hash = FullHash(state)

\* A move has just captured a pawn and the king together.
C1_Witness ==
    /\ Moved
    /\ pre.king_piece # {} /\ state.king_piece = {}
    /\ Cardinality(state.white_pieces) < Cardinality(pre.white_pieces)
    /\ state.hash = FullHash(state)

\* The number of pieces the last move removed.
Removed ==
    (Cardinality(pre.black_pieces) + Cardinality(pre.white_pieces)
        + Cardinality(pre.king_piece))
    - (Cardinality(state.black_pieces) + Cardinality(state.white_pieces)
        + Cardinality(state.king_piece))

\* C2: for every legal move m of a reachable state s, next_hash(s, m) is the
\* hash of the state move_piece(s, m) produces, also when m captures several
\* pieces or the king.
C2_NextHashIsMovedHash == Moved => next_hash(pre, last.move) = state.hash

\* A move that removed two pawns has just been played and previewed.
C2_Witness ==
    /\ Moved
    /\ Removed >= 2
    /\ state.king_piece # {}
    /\ next_hash(pre, last.move) = state.hash

\* C3: the three bitboards are pairwise disjoint, the king bitboard has at
\* most one bit, and no pawn stands on the throne or on a corner.
C3_BoardsWellFormed ==
    /\ state.black_pieces \cap state.white_pieces = {}
    /\ state.black_pieces \cap state.king_piece = {}
    /\ state.white_pieces \cap state.king_piece = {}
    /\ Cardinality(state.king_piece) <= 1
    /\ (state.black_pieces \cup state.white_pieces) \cap RESTRICTED = {}

\* A pawn has just slid across the empty throne.
C3_Witness ==
    /\ Moved
    /\ src_of(last.move) \notin pre.king_piece
    /\ 24 \notin pre.king_piece
    /\ \/ {src_of(last.move), dst_of(last.move)} \in {{23, 25}, {17, 31}, {22, 25},
             {23, 26}, {22, 26}, {10, 31}, {17, 38}, {10, 38}}
    /\ (state.black_pieces \cup state.white_pieces) \cap RESTRICTED = {}

\* The configuration of s: the key its history is searched for.
Boards(s) == <<s.black_pieces, s.white_pieces, s.king_piece>>

\* The configuration the last move produced was already in the history.
ResultInHistory ==
    \E n \in 1..Len(pre.history) : EntryEqual(pre.history[n], Boards(state))

\* check_game_over reports the attackers' win of its repetition rule.
RepetitionWin(s) ==
    /\ (s.king_piece \cap CORNERS) = {}
    /\ s.king_piece # {}
    /\ s.repetition
    /\ check_game_over(s) = "B"

C4_DefenderRepeats ==
    /\ Moved
    /\ pre.player = "W"
    /\ ResultInHistory
    /\ RepetitionWin(state)

\* The decision the priority list of check_game_over describes.
KingOnCorner(s) == \E k \in s.king_piece : k \in {idx(0, 0), idx(0, 6), idx(6, 0), idx(6, 6)}

NoKing(s) == s.king_piece = {}

NoMove(s) == Len(get_legal_moves(s, TRUE)) = 0

Exhausted(s) == Cardinality(s.black_pieces) <= 2 /\ Cardinality(s.white_pieces) <= 1

Opponent(p) == IF p = "B" THEN "W" ELSE "B"

\* The result the priority list gives: the first condition that holds decides.
Decision(s) ==
    IF KingOnCorner(s) THEN "W"
    ELSE IF NoKing(s) THEN "B"
    ELSE IF s.repetition THEN "B"
    ELSE IF NoMove(s) THEN Opponent(s.player)
    ELSE IF Exhausted(s) THEN "D"
    ELSE "None"

\* C5: check_game_over decides in strict priority: king on a corner, W; no
\* king, B; repetition flag, B; no legal move of the side to move (the
\* defender's moves repetition-filtered), its opponent; attackers <= 2 and
\* defenders <= 1, D; otherwise not over.
C5_GameOverPriority == check_game_over(state) = Decision(state)

\* The side to move has no move while the material is exhausted: the
\* stalemate rule decides, not the draw rule.
C5_Witness ==
    /\ ~KingOnCorner(state) /\ ~NoKing(state) /\ ~state.repetition
    /\ NoMove(state)
    /\ Exhausted(state)
    /\ check_game_over(state) = Opponent(state.player)

\* The squares strictly between two squares of one row or column.
Between(o, d) ==
    IF Row(o) = Row(d)
    THEN {idx(Row(o), c) : c \in {x \in 0..6 : \/ Col(o) < x /\ x < Col(d)
                                               \/ Col(d) < x /\ x < Col(o)}}
    ELSE {idx(r, Col(o)) : r \in {x \in 0..6 : \/ Row(o) < x /\ x < Row(d)
                                               \/ Row(d) < x /\ x < Row(o)}}

\* The other squares of the row and of the column of o.
Line(o) ==
    ({idx(Row(o), c) : c \in 0..6} \cup {idx(r, Col(o)) : r \in 0..6}) \ {o}

Occupied(s) == s.black_pieces \cup s.white_pieces \cup s.king_piece

Mine(s) == IF s.player = "B" THEN s.black_pieces
           ELSE s.white_pieces \cup s.king_piece

\* The orthogonal slides of the side to move.
SlideMoves(s) ==
    UNION {{<<Row(o), Col(o), Row(d), Col(d)>> :
               d \in {x \in Line(o) :
                        /\ (Between(o, x) \cup {x}) \cap Occupied(s) = {}
                        /\ x \in {0, 6, 24, 42, 48} => o \in s.king_piece}} :
           o \in Mine(s)}

\* C6: get_legal_moves(no_repetition = false) returns exactly the orthogonal
\* slides of the side to move over empty squares onto an empty square that
\* is not the throne or a corner unless the king moves; each move once.
C6_LegalMovesAreSlides ==
    /\ SeqRange(get_legal_moves(state, FALSE)) = SlideMoves(state)
    /\ Len(get_legal_moves(state, FALSE)) = Cardinality(SlideMoves(state))

\* A pawn of the side to move can slide across the empty throne, and the
\* king can step onto a corner.
C6_Witness ==
    /\ \E m \in SeqRange(get_legal_moves(state, FALSE)) :
          /\ 24 \in Between(src_of(m), dst_of(m))
          /\ src_of(m) \notin state.king_piece
    /\ \E m \in SeqRange(get_legal_moves(state, FALSE)) :
          /\ dst_of(m) \in CORNERS
          /\ src_of(m) \in state.king_piece

\* ------------------------------------------------------------------------
\* The last move, as the capture rules describe it
\* ------------------------------------------------------------------------
\* The attackers moved last.
AttackerMoved == pre.player = "B"

\* The boards right after the piece was relocated, before any capture.
RelocatedBlack ==
    IF src_of(last.move) \in pre.black_pieces
    THEN (pre.black_pieces \ {src_of(last.move)}) \cup {dst_of(last.move)}
    ELSE pre.black_pieces

RelocatedWhite ==
    IF src_of(last.move) \in pre.white_pieces
    THEN (pre.white_pieces \ {src_of(last.move)}) \cup {dst_of(last.move)}
    ELSE pre.white_pieces

RelocatedKing ==
    IF src_of(last.move) \in pre.king_piece
    THEN (pre.king_piece \ {src_of(last.move)}) \cup {dst_of(last.move)}
    ELSE pre.king_piece

\* The squares orthogonally adjacent to square d.
Adjacent(d) ==
    {x \in 0..48 : \/ Row(x) = Row(d) /\ (Col(x) = Col(d) + 1 \/ Col(x) = Col(d) - 1)
                   \/ Col(x) = Col(d) /\ (Row(x) = Row(d) + 1 \/ Row(x) = Row(d) - 1)}

\* The square directly beyond v on the line from d through v, if on the board.
Beyond(d, v) ==
    LET r == Row(v) + (Row(v) - Row(d))
        c == Col(v) + (Col(v) - Col(d))
    IN  IF r >= 0 /\ r <= 6 /\ c >= 0 /\ c <= 6 THEN {idx(r, c)} ELSE {}

\* The enemy pawns next to the destination of the last move.
EnemyPawns ==
    Adjacent(dst_of(last.move))
    \cap (IF AttackerMoved THEN pre.white_pieces ELSE pre.black_pieces)

\* Square a is hostile to the enemy pawn of the last mover.
HostileToVictim(a) ==
    \/ a \in (IF AttackerMoved THEN RelocatedBlack
              ELSE RelocatedWhite \cup RelocatedKing)
    \/ a \in {0, 6, 42, 48}
    \/ a = 24 /\ (~AttackerMoved \/ 24 \notin RelocatedKing)

\* C7: an enemy pawn next to the destination of a move is removed if and
\* only if the square beyond it is on the board and hostile to it: a piece
\* of the mover's side, a corner, or the throne (for a defender only while
\* the king is not on it).
C7_PawnCapturedIffFlanked ==
    Moved =>
        \A v \in EnemyPawns :
            (v \notin (state.black_pieces \cup state.white_pieces))
            <=> (\E a \in Beyond(dst_of(last.move), v) : HostileToVictim(a))

\* An attacker has just captured a defender against the empty throne.
C7_Witness ==
    /\ Moved /\ AttackerMoved
    /\ \E v \in EnemyPawns :
          /\ v \notin state.white_pieces
          /\ Beyond(dst_of(last.move), v) = {24}
          /\ 24 \notin pre.king_piece

\* The king of the moved boards stands where the claim's rule captures him.
KingSurrounded ==
    \E k \in pre.king_piece :
        IF k = 24
        THEN {17, 23, 25, 31} \subseteq RelocatedBlack
        ELSE IF k \in {17, 23, 25, 31}
        THEN (Adjacent(k) \ {24}) \subseteq RelocatedBlack
        ELSE \E v \in Adjacent(k) :
                /\ v \in RelocatedBlack \cup {0, 6, 42, 48}
                /\ \E o \in Beyond(v, k) : o \in RelocatedBlack \cup {0, 6, 42, 48}

C9_MoveFrame ==
    Moved =>
        /\ IF AttackerMoved
           THEN /\ state.black_pieces = RelocatedBlack
                /\ state.white_pieces \subseteq pre.white_pieces
                /\ state.king_piece \subseteq pre.king_piece
                /\ ((pre.white_pieces \ state.white_pieces)
                      \cup (pre.king_piece \ state.king_piece))
                   \subseteq Adjacent(dst_of(last.move))
           ELSE /\ state.white_pieces = RelocatedWhite
                /\ state.king_piece = RelocatedKing
                /\ state.black_pieces \subseteq pre.black_pieces
                /\ (pre.black_pieces \ state.black_pieces)
                   \subseteq Adjacent(dst_of(last.move))
        /\ Cardinality(RelocatedBlack) = Cardinality(pre.black_pieces)
        /\ Cardinality(RelocatedWhite \cup RelocatedKing)
             = Cardinality(pre.white_pieces \cup pre.king_piece)
        /\ state.ply_count = pre.ply_count + 1
        /\ state.player # pre.player
        /\ state.player \in {"B", "W"}

\* A move has just captured an enemy piece while a piece of the mover's own
\* side stood next to the destination, and stayed.
C9_Witness ==
    /\ Moved
    /\ Removed >= 1
    /\ \E v \in Adjacent(dst_of(last.move)) :
          IF AttackerMoved
          THEN v \in pre.black_pieces /\ v \in state.black_pieces
          ELSE v \in (pre.white_pieces \cup pre.king_piece)
               /\ v \in (state.white_pieces \cup state.king_piece)

\* C10: for the defender, get_legal_moves(no_repetition = true) returns
\* exactly the legal moves whose configuration after captures is not in the
\* history, so a returned move never sets the repetition flag; for the
\* attacker the flag changes nothing.
C10_RepetitionFilter ==
    LET offered  == SeqRange(get_legal_moves(pre, TRUE))
        filtered == get_legal_moves(state, TRUE)
        all      == get_legal_moves(state, FALSE)
    IN  /\ (Moved /\ ~AttackerMoved) =>
              /\ (last.move \in offered) <=> ~ResultInHistory
              /\ (last.move \in offered) => ~state.repetition
        /\ IF state.player = "B" THEN filtered = all
           ELSE SeqRange(filtered) \subseteq SeqRange(all)

\* The defender has just played a move the filter suppresses.
C10_Witness ==
    /\ Moved /\ ~AttackerMoved
    /\ last.move \notin SeqRange(get_legal_moves(pre, TRUE))
    /\ ResultInHistory
    /\ state.repetition


\* C11: has_legal_move(side to move) is true exactly when
\* get_legal_moves(no_repetition = true) is non-empty; so a state for which
\* check_game_over returns None always offers the search a candidate move.
C11_HasLegalMoveIffMoves ==
    LET moves == get_legal_moves(state, TRUE)
    IN  /\ has_legal_move(state, state.player) <=> (moves # <<>>)
        /\ (check_game_over(state) = "None") => (moves # <<>>)

\* The defender to move has a king on the board and no move left.
C11_Witness ==
    /\ Moved
    /\ state.player = "W"
    /\ state.king_piece # {}
    /\ ~has_legal_move(state, state.player)
    /\ get_legal_moves(state, TRUE) = <<>>


\* C20: move_piece never applies a move while skipping both the repetition
\* lookup and the history insertion: after every move the repetition flag
\* tells whether the configuration produced was in the history, and the
\* configuration is in the history afterwards.
C20_HistoryNeverSkipped ==
    Moved =>
        /\ state.repetition <=> ResultInHistory
        /\ binary_search_is_ok(state.history, Boards(state))

\* The lookup and the insertion both happen while the history has room.
C20_BelowCapacity ==
    (Moved /\ history_len(pre) < MAX_GAME_LENGTH) =>
        /\ state.repetition <=> ResultInHistory
        /\ binary_search_is_ok(state.history, Boards(state))

\* A move was applied to a state whose history was full.
C20_AtCapacity ==
    /\ Moved
    /\ history_len(pre) = MAX_GAME_LENGTH
    /\ state.ply_count = pre.ply_count + 1
    /\ state.history = pre.history


\* ------------------------------------------------------------------------
\* Properties of the table
\* ------------------------------------------------------------------------
\* The last operation was the add_entry of an expansion.
IsAdd == tlast.op # <<>> /\ tlast.op[1] = "add_entry"

IsBackpropagate == tlast.op # <<>> /\ tlast.op[1] = "backpropagate"

\* The hash the last operation was about.
OpHash == tlast.op[2]

\* The bucket of that hash before and after the operation.
BucketBefore == get_bucket(tlast.before.transpositions, OpHash)

BucketAfter == get_bucket(engine.transpositions, OpHash)

\* What the add_entry of the last operation returned.
AddReturned == AddResult(tlast.before, OpHash)

Slots == 1..BUCKET_ENTRIES

Matching(entries, hash) ==
    {i \in Slots : ~is_empty(entries[i]) /\ hash_equals(entries[i], hash)}

EmptySlots(entries) == {i \in Slots : is_empty(entries[i])}

\* The entries whose generation is below the bound.
Stale(entries, generation_bound) ==
    {i \in Slots : get_generation(entries[i]) < generation_bound}

\* The entries of S with the fewest visits.
LeastVisitedOf(entries, S) ==
    {i \in S : \A j \in S : ~BitLess(get_n_visits(entries[j]), get_n_visits(entries[i]))}

\* The entries the last operation changed.
Changed == {i \in Slots : BucketAfter[i] # BucketBefore[i]}

\* The bucket was full and held no entry of the hash.
FullNoMatch ==
    /\ EmptySlots(BucketBefore) = {}
    /\ Matching(BucketBefore, OpHash) = {}

StaleBefore == Stale(BucketBefore, tlast.before.generation_bound)

\* C12: add_entry changes an existing entry of another hash only when the
\* bucket has no entry of the hash and no empty slot; if such a full bucket
\* holds an entry whose generation is below generation_bound, the entry
\* replaced is a least visited one of those, the call returns OverwrittenOUT
\* and no entry with generation >= generation_bound is changed.
C12_EvictsLeastVisitedStale ==
    IsAdd =>
        /\ \A i \in Changed :
              (~is_empty(BucketBefore[i]) /\ i \notin Matching(BucketBefore, OpHash))
                  => FullNoMatch
        /\ (FullNoMatch /\ StaleBefore # {}) =>
              /\ AddReturned = "OverwrittenOUT"
              /\ \E j \in LeastVisitedOf(BucketBefore, StaleBefore) :
                    /\ Changed = {j}
                    /\ hash_equals(BucketAfter[j], OpHash)
              /\ \A i \in Slots \ StaleBefore : BucketAfter[i] = BucketBefore[i]

\* A full bucket with a fresh entry and two stale entries of different visit
\* counts took a new hash.
C12_Witness ==
    /\ IsAdd
    /\ FullNoMatch
    /\ StaleBefore # Slots
    /\ \E i, j \in StaleBefore :
          BitLess(get_n_visits(BucketBefore[i]), get_n_visits(BucketBefore[j]))
    /\ AddReturned = "OverwrittenOUT"
    /\ \E j \in StaleBefore : Changed = {j}

\* C13: after add_entry(h, g, bound), get_entry(h) returns an entry; after
\* EmptyEntry, OverwrittenOUT or OverwrittenIN it has no visit and score 0; a
\* full bucket of entries with generation >= bound and none of the hash has
\* its least visited entry replaced and the call returns OverwrittenIN.
C13_AddedEntryIsFound ==
    IsAdd =>
        /\ get_entry(BucketAfter, OpHash) # {}
        /\ (AddReturned # "Found") =>
              \A i \in get_entry(BucketAfter, OpHash) :
                  /\ get_n_visits(BucketAfter[i]) = {}
                  /\ get_n_wins(BucketAfter[i]) = {}
        /\ (FullNoMatch /\ StaleBefore = {}) =>
              /\ AddReturned = "OverwrittenIN"
              /\ \E j \in LeastVisitedOf(BucketBefore, Slots) : Changed = {j}

\* The same for the entries whose packed word is not zero.
C13_AddedEntryIsFoundUnlessZero ==
    (IsAdd /\ \E i \in Changed : ~is_empty(BucketAfter[i])) =>
        /\ get_entry(BucketAfter, OpHash) # {}
        /\ (AddReturned # "Found") =>
              \A i \in get_entry(BucketAfter, OpHash) :
                  /\ get_n_visits(BucketAfter[i]) = {}
                  /\ get_n_wins(BucketAfter[i]) = {}

\* add_entry returned EmptyEntry and get_entry finds no entry of the hash.
C13_KeyDropped ==
    /\ IsAdd
    /\ AddReturned = "EmptyEntry"
    /\ get_entry(BucketAfter, OpHash) = {}

\* C14: add_entry on a bucket that holds a non-empty entry of the hash returns
\* Found, sets that entry's generation to the given generation and changes
\* neither its visit count, its score, nor any other entry.
C14_FoundOnlyRefreshes ==
    (IsAdd /\ Matching(BucketBefore, OpHash) # {}) =>
        /\ AddReturned = "Found"
        /\ \E i \in Matching(BucketBefore, OpHash) :
              /\ get_generation(BucketAfter[i]) = tlast.before.generation
              /\ get_n_visits(BucketAfter[i]) = get_n_visits(BucketBefore[i])
              /\ get_n_wins(BucketAfter[i]) = get_n_wins(BucketBefore[i])
              /\ hash_equals(BucketAfter[i], OpHash)
              /\ \A j \in Slots \ {i} : BucketAfter[j] = BucketBefore[j]

\* The same for the generations that fit the field.
C14_FoundOnlyRefreshesInRange ==
    (/\ IsAdd
     /\ Matching(BucketBefore, OpHash) # {}
     /\ tlast.before.generation < 2 ^ GEN_BITS
     /\ \A i \in Slots : EmptySlots(BucketBefore) \cap 1..i # {} => is_empty(BucketBefore[i])) =>
        /\ AddReturned = "Found"
        /\ \E i \in Matching(BucketBefore, OpHash) :
              /\ get_generation(BucketAfter[i]) = tlast.before.generation
              /\ get_n_visits(BucketAfter[i]) = get_n_visits(BucketBefore[i])
              /\ get_n_wins(BucketAfter[i]) = get_n_wins(BucketBefore[i])
              /\ \A j \in Slots \ {i} : BucketAfter[j] = BucketBefore[j]

\* A Found call changed the visit count of the entry.
C14_VisitsChanged ==
    /\ IsAdd
    /\ AddReturned = "Found"
    /\ \E i \in Matching(BucketBefore, OpHash) :
          get_n_visits(BucketAfter[i]) # get_n_visits(BucketBefore[i])

\* C18: no generation that does not fit GEN_BITS bits is stored: the entry an
\* operation wrote gives back the engine's generation from get_generation,
\* and set_generation with the engine's generation changes the visit count
\* and the score of no entry.
C18_GenerationFits ==
    (tlast.op # <<>> /\ tlast.op[1] # "increase_generation") =>
        /\ engine.generation < 2 ^ GEN_BITS
        /\ \A e \in Probe(engine, OpHash) : get_generation(e) = engine.generation
        /\ \A i \in Slots :
              LET e == BucketBefore[i]
                  written == set_generation(e, engine.generation)
              IN  /\ get_n_visits(written) = get_n_visits(e)
                  /\ get_n_wins(written) = get_n_wins(e)

\* The same below 2^GEN_BITS generations.
C18_GenerationFitsInRange ==
    (/\ tlast.op # <<>> /\ tlast.op[1] # "increase_generation"
     /\ engine.generation < 2 ^ GEN_BITS) =>
        /\ \A e \in Probe(engine, OpHash) : get_generation(e) = engine.generation
        /\ \A i \in Slots :
              LET e == BucketBefore[i]
                  written == set_generation(e, engine.generation)
              IN  /\ get_n_visits(written) = get_n_visits(e)
                  /\ get_n_wins(written) = get_n_wins(e)

\* C19: the visit count a backpropagation adds to never wraps and never
\* reaches SOLVED_THRESHOLD from below it.
C19_VisitsStayBelowSolved ==
    IsBackpropagate =>
        \A i \in Slots :
            LET before == get_n_visits(BucketBefore[i])
                after == get_n_visits(BucketAfter[i])
            IN  /\ ~BitLess(after, before)
                /\ BitLess(before, SOLVED_THRESHOLD) => BitLess(after, SOLVED_THRESHOLD)

\* The same for the batches of at most 2^12 playouts and a visit count
\* below 2^35.
C19_VisitsStayBelowSolvedSmallBatch ==
    (IsBackpropagate /\ BitLess(get_batch_size(engine), {13})) =>
        \A i \in Slots :
            LET before == get_n_visits(BucketBefore[i])
                after == get_n_visits(BucketAfter[i])
            IN  /\ ~BitLess(after, before)
                /\ BitLess(before, {35}) => BitLess(after, SOLVED_THRESHOLD)


\* ------------------------------------------------------------------------
\* Properties of the move decision
\* ------------------------------------------------------------------------
\* get_move has returned; the state is still the root it was called on.
Returned == search.phase = "returned"

\* The root is not game-over and get_legal_moves(.., true), the list the
\* search and the final choice go through, has exactly one move.
OneMove == check_game_over(state) = "None" /\ Len(get_legal_moves(state, TRUE)) = 1

\* C15: when the root is not game-over and has exactly one legal move,
\* get_move returns that move.
C15_OnlyMoveReturned ==
    (Returned /\ OneMove) => search.returned = {get_legal_moves(state, TRUE)[1]}

\* The same when get_move went through the search, whatever the search
\* found: here it holds.
C15_OnlyMoveReturnedBySearch ==
    (Returned /\ OneMove /\ ~search.instant)
        => search.returned = {get_legal_moves(state, TRUE)[1]}

\* The same with the moves of get_legal_moves(.., false), repetitions
\* included, counted as the legal moves: here it holds.
C15_OnlyUnfilteredMoveReturned ==
    (Returned /\ check_game_over(state) = "None"
              /\ Len(get_legal_moves(state, FALSE)) = 1)
        => search.returned = {get_legal_moves(state, FALSE)[1]}

\* get_move returned on a root with one move, repetitions included.
C15_UnfilteredWitness ==
    Returned /\ check_game_over(state) = "None" /\ Len(get_legal_moves(state, FALSE)) = 1

\* The only move leads to a proven loss, was searched and was returned.
C15_SearchWitness ==
    /\ Returned /\ OneMove /\ ~search.instant
    /\ \E e \in Probe(engine, HashWord(next_hash(state, get_legal_moves(state, TRUE)[1]))) :
          IsSolved(e) /\ IsPositive(get_n_wins(e))

\* The move a heuristic returned is not among the moves of
\* get_legal_moves(.., true) although that list has one move: it repeats a
\* position, and check_game_over gives the game to Black once it is played.
C15_HeuristicMoveFiltered ==
    /\ Returned /\ OneMove /\ search.instant
    /\ \A m \in search.returned : m \notin SeqRange(get_legal_moves(state, TRUE))
    /\ \A m \in search.returned : m \in SeqRange(get_legal_moves(state, FALSE))
    /\ \A m \in search.returned : check_game_over(move_piece(state, m)) = "B"

\* The frames of the last selection pass: one for each node that selected a
\* child, the root's first.
Frames == {search.trail[i] : i \in 1..Len(search.trail)}

\* The selected child's entry is, after backpropagation, solved with negative
\* wins.
ChildProvenLost(frame) ==
    \E c \in frame.child_entry : IsSolved(c) /\ IsNegative(get_n_wins(c))

\* The node's entry is, when the node returns, solved with positive wins.
NodeProvenWon(frame) ==
    \E p \in frame.node_entry : IsSolved(p) /\ IsPositive(get_n_wins(p))

\* C16: whenever a node of a selection pass selected a child whose entry is,
\* after backpropagation, solved with a negative score, the node's entry is
\* marked solved with a positive score in that pass and the node returns a
\* win for its mover (scaled_win).
C16_ProvenLossMarksParentWon ==
    \A frame \in Frames :
        ChildProvenLost(frame)
            => /\ NodeProvenWon(frame)
               /\ frame.result = Scaled(WIN, get_batch_size(engine))
               /\ IsPositive(frame.result)

\* A pass of one playout per expansion in which the selected child came back
\* solved as lost and the node was marked.
C16_Witness ==
    /\ engine.sim_type = Light
    /\ \E frame \in Frames : ChildProvenLost(frame) /\ NodeProvenWon(frame)

\* get_move has returned from its final choice, after a search.
Chosen == Returned /\ ~search.instant

\* What the final choice reads for the child of each move of the root.
RootChildren ==
    ChildCounts(engine, ChildHashes(state, get_legal_moves(state, TRUE)))

\* The child is solved as a loss for its mover: a proven win for the root.
ProvenWin(child) ==
    ~BitLess(child.visits, SOLVED_THRESHOLD) /\ IsNegative(child.raw_wins)

\* The child is solved as a win for its mover: a proven loss for the root.
ProvenLoss(child) ==
    ~BitLess(child.visits, SOLVED_THRESHOLD) /\ IsPositive(child.raw_wins)

\* The children of the moves get_move returned.
ReturnedChildren ==
    {RootChildren[n] : n \in {k \in DOMAIN RootChildren :
                                get_legal_moves(state, TRUE)[k] \in search.returned}}

\* C17: in the final choice, when some child of the root is solved as a loss
\* for its mover, get_move returns such a child; and it returns a child
\* solved as a win for its mover only when every child of the root is one.
C17_ProvenWinReturned ==
    Chosen =>
        /\ (\E n \in DOMAIN RootChildren : ProvenWin(RootChildren[n]))
              => \A child \in ReturnedChildren : ProvenWin(child)
        /\ (\E child \in ReturnedChildren : ProvenLoss(child))
              => \A n \in DOMAIN RootChildren : ProvenLoss(RootChildren[n])

\* The same for searches of one playout per expansion: here it holds.
C17_ProvenWinReturnedOnePlayout ==
    engine.sim_type = Light => C17_ProvenWinReturned

\* One playout per expansion: a child solved as a loss for its mover was
\* there and was returned.
C17_WonWitness ==
    /\ Chosen /\ engine.sim_type = Light
    /\ \E child \in ReturnedChildren : ProvenWin(child)

\* One playout per expansion: every child is a proven loss and the last of
\* them was returned.
C17_ResignWitness ==
    /\ Chosen /\ engine.sim_type = Light
    /\ \A n \in DOMAIN RootChildren : ProvenLoss(RootChildren[n])
    /\ search.returned # {}

\* The move to a drawn game, its child counted SOLVED_THRESHOLD visits and
\* raw_wins = 0, was returned as the proven win while another child is solved
\* as a loss for its mover.
C17_DrawReturned ==
    /\ Chosen
    /\ \E n \in DOMAIN RootChildren : ProvenWin(RootChildren[n])
    /\ \A child \in ReturnedChildren :
          ~BitLess(child.visits, SOLVED_THRESHOLD) /\ child.raw_wins = {}
    /\ \A m \in search.returned : check_game_over(move_piece(state, m)) = "D"

\* ------------------------------------------------------------------------
\* Properties of a selection pass
\* ------------------------------------------------------------------------
\* The last pass ended at a node it left without selecting a child.
LeftAtNode == search.leaf.kind \in {"solved", "repetition", "terminal", "no_moves"}

\* The entries the node where the pass ended had when the pass reached it.
LeafBefore == Probe(search.leaf.before, search.leaf.node)

\* The entries that node had when the pass left it.
LeafAfter == Probe(search.leaf.after, search.leaf.node)

\* n times the sign of the isize value wins.
SignTimes(wins, n) ==
    IF IsPositive(wins) THEN n ELSE IF IsNegative(wins) THEN Neg64(n) ELSE {}

\* C30: a pass that reaches a node whose entry has visits >= SOLVED_THRESHOLD
\* returns there at once: the score is batch_size times the sign of the
\* stored wins, and the engine (the table and its counters) is what it was
\* when the pass reached the node.
C30_SolvedNodeReturnsStoredSign ==
    LeftAtNode =>
        \A e \in LeafBefore :
            ~BitLess(get_n_visits(e), SOLVED_THRESHOLD) =>
                /\ search.leaf.kind = "solved"
                /\ search.leaf.score =
                       SignTimes(get_n_wins(e), get_batch_size(search.leaf.before))
                /\ search.leaf.after = search.leaf.before

\* A pass has ended at a node whose entry was solved.
C30_Witness ==
    /\ search.leaf.kind = "solved"
    /\ \E e \in LeafBefore : ~BitLess(get_n_visits(e), SOLVED_THRESHOLD)

\* The last pass ended at a node whose game check_game_over reports over,
\* the repetition flag being clear.
TerminalNoRepetition ==
    /\ search.leaf.kind = "terminal"
    /\ search.leaf.verdict.winner # "None"
    /\ ~search.leaf.repetition

\* The result of the game for the player to move at the node where the pass
\* ended.
LeafOutcome ==
    IF search.leaf.verdict.winner = "D" THEN DRAW
    ELSE IF search.leaf.verdict.winner = search.leaf.player THEN WIN
    ELSE LOSS

\* A later pass reaching an entry returns the sign of its wins times the
\* batch size (mcts.rs:344-349): the outcome the entry stands for.
OutcomeRead(entry) ==
    IF IsPositive(get_n_wins(entry)) THEN WIN
    ELSE IF IsNegative(get_n_wins(entry)) THEN LOSS
    ELSE DRAW

\* C23: a pass that reaches a node whose game is over, the repetition flag
\* clear, leaves the node's entry solved with wins of the sign of the result
\* for the player to move (positive: won, zero: drawn, negative: lost), which
\* is what every later pass reaching the node returns.
C23_TerminalMarkedWithOutcome ==
    TerminalNoRepetition =>
        /\ LeafAfter # {}
        /\ \A e \in LeafAfter :
            /\ ~BitLess(get_n_visits(e), SOLVED_THRESHOLD)
            /\ OutcomeRead(e) = LeafOutcome
        /\ search.leaf.score = Scaled(LeafOutcome, get_batch_size(search.leaf.before))

\* The same for the games that are won or lost.
C23_DecisiveTerminalMarkedWithOutcome ==
    (TerminalNoRepetition /\ LeafOutcome # DRAW) =>
        /\ LeafAfter # {}
        /\ \A e \in LeafAfter :
            /\ ~BitLess(get_n_visits(e), SOLVED_THRESHOLD)
            /\ OutcomeRead(e) = LeafOutcome
        /\ search.leaf.score = Scaled(LeafOutcome, get_batch_size(search.leaf.before))

\* A pass has marked a won or lost game.
C23_DecisiveWitness ==
    /\ TerminalNoRepetition
    /\ LeafOutcome # DRAW
    /\ LeafAfter # LeafBefore

\* A pass has found a drawn game, returned the draw and marked the entry as
\* a loss.
C23_DrawMarkedLost ==
    /\ TerminalNoRepetition
    /\ LeafOutcome = DRAW
    /\ search.leaf.score = {}
    /\ \E e \in LeafAfter :
        /\ ~BitLess(get_n_visits(e), SOLVED_THRESHOLD)
        /\ OutcomeRead(e) = LOSS

\* The state of the same configuration, side to move and ply reached by
\* moves that never produced one of the configurations s's history holds:
\* history[0..history_len] holds its own configuration only.  The hash, and
\* so the table entry, is the one of s.
WithoutHistory(s) ==
    [s EXCEPT !.history = << <<s.black_pieces, s.white_pieces, s.king_piece, s.ply_count>> >>]

\* C25: a pass marks an entry solved as terminal only when check_game_over
\* gives the same result for the node's configuration and side to move
\* whatever the history: the result of the state whose history holds no
\* other configuration is the result the entry was marked for.
C25_TerminalMarkIsHistoryFree ==
    (TerminalNoRepetition /\ LeafAfter # LeafBefore) =>
        check_game_over(WithoutHistory(search.leaf.state)) = search.leaf.verdict.winner

\* A pass has reached a node with the defenders to move whose every move is
\* taken out as a repetition of the game's history, and has left the node's
\* entry solved as a loss for its mover.
C25_RepetitionLossCached ==
    /\ TerminalNoRepetition
    /\ search.leaf.player = "W"
    /\ search.leaf.verdict.winner = "B"
    /\ search.leaf.state.king_piece # {}
    /\ get_legal_moves(search.leaf.state, FALSE) # <<>>
    /\ get_legal_moves(search.leaf.state, TRUE) = <<>>
    /\ check_game_over(WithoutHistory(search.leaf.state)) = "None"
    /\ LeafBefore = {}
    /\ \E e \in LeafAfter :
        /\ ~BitLess(get_n_visits(e), SOLVED_THRESHOLD)
        /\ OutcomeRead(e) = LOSS

\* The score of a win of the attackers for the player to move at the node
\* where the pass ended.
AttackersWinScore ==
    Scaled(IF search.leaf.player = "B" THEN WIN ELSE LOSS,
           get_batch_size(search.leaf.before))

ShortcutTaken == Returned /\ search.instant

\* C28: the move get_move returns without a search is a legal move of the
\* root, one of get_legal_moves(.., true); the king's move to a corner puts
\* the king on a corner, and the attackers' move from heuristic_capture_king
\* takes the king off the board.
C28_ShortcutMoveLegalAndWinning ==
    ShortcutTaken =>
        \A m \in search.returned :
            /\ m \in SeqRange(get_legal_moves(state, TRUE))
            /\ (state.player = "W" /\ heuristic_king_to_corner(state) # {})
                   => (move_piece(state, m).king_piece \cap CORNERS) # {}
            /\ state.player = "B" => move_piece(state, m).king_piece = {}

\* The same with the moves of get_legal_moves(.., false), repetitions
\* included, counted as the legal moves: here it holds.
C28_ShortcutMoveByTheRulesAndWinning ==
    ShortcutTaken =>
        \A m \in search.returned :
            /\ m \in SeqRange(get_legal_moves(state, FALSE))
            /\ (state.player = "W" /\ heuristic_king_to_corner(state) # {})
                   => (move_piece(state, m).king_piece \cap CORNERS) # {}
            /\ state.player = "B" => move_piece(state, m).king_piece = {}

\* get_move has returned the king's move to a corner.
C28_CornerWitness ==
    ShortcutTaken /\ state.player = "W" /\ heuristic_king_to_corner(state) # {}

\* get_move has returned the attackers' move that captures the king.
C28_CaptureWitness ==
    ShortcutTaken /\ state.player = "B" /\ state.king_piece # {}

\* get_move has returned the king's move to an empty edge, a move that
\* get_legal_moves(.., true) leaves out as a repetition: once played, the
\* repetition flag is set and check_game_over gives the game to Black.
C28_EdgeMoveFiltered ==
    /\ ShortcutTaken /\ state.player = "W"
    /\ heuristic_king_to_corner(state) = {}
    /\ \A m \in search.returned :
        /\ m \notin SeqRange(get_legal_moves(state, TRUE))
        /\ move_piece(state, m).repetition
        /\ check_game_over(move_piece(state, m)) = "B"

\* The selected child's entry was in the table when the frame's node came to
\* its backpropagation, and the entry afterwards has batch_size more visits
\* and the child's result more wins.
ChildUpdated(frame, batch_size) ==
    /\ frame.child_before # {}
    /\ frame.child_entry # {}
    /\ \A b \in frame.child_before : \A a \in frame.child_entry :
        /\ get_n_visits(a) = Add64(get_n_visits(b), batch_size)
        /\ get_n_wins(a) = Add64(get_n_wins(b), frame.child_result)

\* The same in the searches of SpecSearch, where no two positions of a
\* search share a bucket: every node of a pass that selected a child finds
\* the child's entry and adds batch_size visits and the child's result.
C29_ChildUpdatedWithoutCollisions ==
    \A frame \in Frames : ChildUpdated(frame, get_batch_size(engine))

\* C29: a node of a pass that selected a child and comes to its
\* backpropagation finds the child's entry in the table, whatever the
\* descent below the child has added or overwritten, and the entry gets
\* batch_size more visits and the child's result more wins.
C29_SelectedChildUpdated ==
    \A frame \in Frames : ChildUpdated(frame, get_batch_size(engine))

\* A pass went down to a visited child and expanded below it a position of
\* the child's bucket; the bucket was full, add_entry overwrote the child's
\* entry, and the backpropagation at the node found no entry for the child.
C29_ChildEntryGone ==
    /\ tlast.op # <<>> /\ tlast.op[1] = "return"
    /\ \E frame \in Frames : frame.child_before = {} /\ frame.child_entry = {}

\* A pass went down to a visited child and came back to find its entry.
C29_ChildEntryFound ==
    /\ tlast.op # <<>> /\ tlast.op[1] = "return"
    /\ \E frame \in Frames : ChildUpdated(frame, get_batch_size(engine))

\* After the defenders' move that led to t, whatever the attackers reply,
\* the king is on the board and has a free line to a corner.
HoldsAgainstEveryReply(t) ==
    \A reply \in SeqRange(get_legal_moves(t, TRUE)) :
        /\ move_piece(t, reply).king_piece # {}
        /\ heuristic_king_to_corner(move_piece(t, reply)) # {}

\* The defenders, to move in s, have a move after which the king stands on
\* a corner or cannot be kept from one by any reply.  Moves that repeat a
\* position are counted among the defenders' moves.
ForcedWin(s) ==
    \E m \in SeqRange(get_legal_moves(s, FALSE)) :
        IF (move_piece(s, m).king_piece \cap CORNERS) # {} THEN TRUE
        ELSE HoldsAgainstEveryReply(move_piece(s, m))

\* get_move or a selection pass has evaluated heuristic_wins_w on the root.
RootEvaluated == search.phase # "idle"

\* C27: whenever heuristic_wins_w is true of a state with the defenders to
\* move, the defenders have a forced win from it.
C27_WinsWIsForced ==
    (RootEvaluated /\ heuristic_wins_w(state)) => ForcedWin(state)

\* The same for the king's free line to a corner: here it holds.
C27_KingToCornerIsForced ==
    (RootEvaluated /\ state.player = "W" /\ heuristic_king_to_corner(state) # {})
        => ForcedWin(state)

\* heuristic_wins_w is true because the king has a free line to a corner.
C27_CornerWitness ==
    RootEvaluated /\ state.player = "W" /\ heuristic_king_to_corner(state) # {}

\* heuristic_wins_w is true of the root, through the empty edge, and every
\* move of the defenders can be answered by the capture of the king.
C27_EdgeLost ==
    /\ RootEvaluated /\ heuristic_wins_w(state)
    /\ heuristic_king_to_corner(state) = {}
    /\ \A m \in SeqRange(get_legal_moves(state, FALSE)) :
        \E reply \in SeqRange(get_legal_moves(move_piece(state, m), TRUE)) :
            move_piece(move_piece(state, m), reply).king_piece = {}

\* The king's square before the last move.
KingBefore == SetMin(pre.king_piece)

\* The last move was an attackers' move that took the king, away from the
\* throne and its four neighbours, off the board.
KingCapturedAway ==
    /\ Moved
    /\ pre.king_piece # {}
    /\ state.king_piece = {}
    /\ src_of(last.move) \in pre.black_pieces
    /\ KingBefore \notin {24, 23, 25, 17, 31}

\* The square on the other side of the king from square i next to it.
Opposite(k_idx, i) == 2 * k_idx - i

\* The attacker's destination is next to the king, and the square on the
\* other side of the king, on the same row or column, held an attacker or is
\* a corner: the move completed the sandwich.
CompletesSandwich ==
    LET k_idx == KingBefore
        dest == dst_of(last.move)
    IN  /\ dest \in SeqRange(get_orthogonal_neighbors(k_idx))
        /\ Opposite(k_idx, dest) \in SeqRange(get_orthogonal_neighbors(k_idx))
        /\ Opposite(k_idx, dest) \in (pre.black_pieces \ {src_of(last.move)}) \cup CORNERS

\* C26: a king that is neither on nor next to the throne is captured only by
\* the attackers' move that completes the sandwich; a move next to the king
\* across the line of two hostile squares that already flank it does not
\* capture.
C26_KingCapturedBySandwichMove == KingCapturedAway => CompletesSandwich

\* The king was captured by the move that completed the sandwich.
C26_SandwichWitness == KingCapturedAway /\ CompletesSandwich

\* The king stood between two hostile squares; an attacker moved next to it
\* on the other line, with no hostile square opposite, and the king was
\* taken.
C26_PerpendicularCapture ==
    /\ KingCapturedAway
    /\ ~CompletesSandwich
    /\ dst_of(last.move) \in SeqRange(get_orthogonal_neighbors(KingBefore))

\* ------------------------------------------------------------------------
\* The arena's rule engine (src/src/game.rs), the Brandubh variant
\* ------------------------------------------------------------------------
\* A Position is the number row * 7 + col of its square, a Move the tuple
\* <<from.row, from.col, to.row, to.col>>; board[pos] is "None" or the
\* piece, result is "None" or the result, and the Option king_position is
\* the empty set or the set of the king's square.  The u64 of
\* hash_position is taken for the pair it hashes, the cells of the board and
\* the player to move: two positions have one hash when they are equal.
BRANDUBH_SIZE == 7

opponent(player) == IF player = "Attackers" THEN "Defenders" ELSE "Attackers"

InBoard(r, c) == r >= 0 /\ r < BRANDUBH_SIZE /\ c >= 0 /\ c < BRANDUBH_SIZE

is_corner(pos) ==
    /\ (Row(pos) = BRANDUBH_SIZE - 1 \/ Row(pos) = 0)
    /\ (Col(pos) = BRANDUBH_SIZE - 1 \/ Col(pos) = 0)

is_throne(pos) ==
    Row(pos) = BRANDUBH_SIZE \div 2 /\ Col(pos) = BRANDUBH_SIZE \div 2

\* the directions in the order of the code's array
directions == << <<0, 1>>, <<0, 0 - 1>>, <<1, 0>>, <<0 - 1, 0>> >>

hash_position(s) == <<s.board, s.current_player>>

record_position(s) ==
    LET hash == hash_position(s)
        counts == s.position_history
    IN  [s EXCEPT !.position_history =
            IF hash \in DOMAIN counts
            THEN [counts EXCEPT ![hash] = @ + 1]
            ELSE [h \in DOMAIN counts \cup {hash} |->
                     IF h = hash THEN 1 ELSE counts[h]]]

setup_brandubh ==
    LET center == BRANDUBH_SIZE \div 2
        defenders == {idx(center - 1, center), idx(center + 1, center),
                      idx(center, center - 1), idx(center, center + 1)}
        attackers == {idx(0, 3), idx(1, 3), idx(5, 3), idx(6, 3),
                      idx(3, 0), idx(3, 1), idx(3, 5), idx(3, 6)}
    IN  [pos \in 0..(BRANDUBH_SIZE * BRANDUBH_SIZE - 1) |->
            IF pos = idx(center, center) THEN "King"
            ELSE IF pos \in defenders THEN "Defender"
            ELSE IF pos \in attackers THEN "Attacker"
            ELSE "None"]

\* GameState::new(Variant::Brandubh)
new_brandubh ==
    record_position(
        [board            |-> setup_brandubh,
         current_player   |-> "Attackers",
         king_position    |-> {idx(BRANDUBH_SIZE \div 2, BRANDUBH_SIZE \div 2)},
         move_count       |-> 0,
         result           |-> "None",
         position_history |-> <<>>])

is_game_over(s) == s.result # "None"

piece_belongs_to_player(piece, player) ==
    \/ piece = "Attacker" /\ player = "Attackers"
    \/ piece \in {"Defender", "King"} /\ player = "Defenders"

\* legal_moves_for_piece, the loop of one direction from (r, c): the squares
\* pushed before the `break`.
RECURSIVE SlideFrom(_, _, _, _, _)
SlideFrom(s, piece, r, c, d) ==
    LET nr == r + d[1]
        nc == c + d[2]
    IN  IF ~InBoard(nr, nc) THEN <<>>
        ELSE IF s.board[idx(nr, nc)] # "None" THEN <<>>
        ELSE IF piece # "King" /\ (is_throne(idx(nr, nc)) \/ is_corner(idx(nr, nc)))
             THEN <<>>
        ELSE <<idx(nr, nc)>> \o SlideFrom(s, piece, nr, nc, d)

MovesTo(from, dests) ==
    [n \in 1..Len(dests) |-> <<Row(from), Col(from), Row(dests[n]), Col(dests[n])>>]

legal_moves_for_piece(s, from) ==
    LET piece == s.board[from]
        Along(n) == SlideFrom(s, piece, Row(from), Col(from), directions[n])
    IN  MovesTo(from, Along(1) \o Along(2) \o Along(3) \o Along(4))

\* legal_moves, the two loops over the squares from pos on.
RECURSIVE MovesOfPlayer(_, _, _)
MovesOfPlayer(s, pos, player) ==
    IF pos >= BRANDUBH_SIZE * BRANDUBH_SIZE THEN <<>>
    ELSE (IF s.board[pos] # "None" /\ piece_belongs_to_player(s.board[pos], player)
          THEN legal_moves_for_piece(s, pos)
          ELSE <<>>)
         \o MovesOfPlayer(s, pos + 1, player)

legal_moves(s, player) ==
    IF is_game_over(s) THEN <<>> ELSE MovesOfPlayer(s, 0, player)

is_hostile_to_king(s, pos) ==
    IF is_corner(pos) THEN TRUE ELSE s.board[pos] = "Attacker"

\* The neighbours of pos on the board, in the order of `directions`.
NeighboursOf(pos) ==
    {idx(Row(pos) + directions[n][1], Col(pos) + directions[n][2]) :
        n \in {n \in 1..4 : InBoard(Row(pos) + directions[n][1],
                                   Col(pos) + directions[n][2])}}

is_surrounded_on_all_sides(s, king_pos) ==
    /\ \A n \in 1..4 : InBoard(Row(king_pos) + directions[n][1],
                               Col(king_pos) + directions[n][2])
    /\ \A pos \in NeighboursOf(king_pos) : s.board[pos] = "Attacker"

is_surrounded_next_to_throne(s, king_pos, throne_pos) ==
    \A pos \in NeighboursOf(king_pos) \ {throne_pos} : s.board[pos] = "Attacker"

\* The square beyond `target` on the line from `attacker`, as <<row, col>>.
OppositeOf(attacker, target) ==
    <<2 * Row(target) - Row(attacker), 2 * Col(target) - Col(attacker)>>

\* Mutant: the king away from the throne is captured when any two opposite
\* neighbours are hostile, whatever the square the attacker arrived on.
is_king_captured_from_AnyLine(s, king_pos, attacker_pos) ==
    \E pos \in NeighboursOf(king_pos) :
        /\ InBoard(OppositeOf(pos, king_pos)[1], OppositeOf(pos, king_pos)[2])
        /\ is_hostile_to_king(s, pos)
        /\ is_hostile_to_king(s, idx(OppositeOf(pos, king_pos)[1], OppositeOf(pos, king_pos)[2]))

is_king_captured_from(s, king_pos, attacker_pos) ==
    LET center == BRANDUBH_SIZE \div 2
        is_next_to_throne ==
            \/ Row(king_pos) = center /\ Col(king_pos) \in {center - 1, center + 1}
            \/ Col(king_pos) = center /\ Row(king_pos) \in {center - 1, center + 1}
        opposite == OppositeOf(attacker_pos, king_pos)
    IN  IF is_throne(king_pos) THEN is_surrounded_on_all_sides(s, king_pos)
        ELSE IF is_next_to_throne
             THEN is_surrounded_next_to_throne(s, king_pos, idx(center, center))
        ELSE IF ~InBoard(opposite[1], opposite[2]) THEN FALSE
        ELSE is_hostile_to_king(s, idx(opposite[1], opposite[2]))

can_capture(s, attacker, target) ==
    LET attacker_piece == s.board[attacker]
        target_piece == s.board[target]
        opposite == OppositeOf(attacker, target)
        opposite_pos == idx(opposite[1], opposite[2])
    IN  IF \/ attacker_piece = "Attacker" /\ target_piece = "Attacker"
           \/ attacker_piece = "Defender" /\ target_piece = "Defender"
           \/ attacker_piece = "King" /\ target_piece = "Defender"
           \/ attacker_piece = "Defender" /\ target_piece = "King"
        THEN FALSE
        ELSE IF target_piece = "King" THEN is_king_captured_from(s, target, attacker)
        ELSE IF ~InBoard(opposite[1], opposite[2]) THEN FALSE
        ELSE IF is_corner(opposite_pos) THEN TRUE
        ELSE IF is_throne(opposite_pos) /\ target_piece = "Attacker" THEN TRUE
        ELSE IF is_throne(opposite_pos) /\ target_piece = "Defender"
             THEN s.board[opposite_pos] = "None"
        ELSE \/ target_piece = "Attacker" /\ s.board[opposite_pos] \in {"Defender", "King"}
             \/ target_piece = "Defender" /\ s.board[opposite_pos] = "Attacker"

\* check_captures, the loop over the directions from the n-th on.
RECURSIVE CapturesFrom(_, _, _)
CapturesFrom(s, moved_to, n) ==
    IF n > 4 THEN s
    ELSE LET r == Row(moved_to) + directions[n][1]
             c == Col(moved_to) + directions[n][2]
             target == idx(r, c)
         IN  IF ~InBoard(r, c) THEN CapturesFrom(s, moved_to, n + 1)
             ELSE IF s.board[target] = "None" THEN CapturesFrom(s, moved_to, n + 1)
             ELSE IF ~can_capture(s, moved_to, target)
                  THEN CapturesFrom(s, moved_to, n + 1)
             ELSE CapturesFrom(
                      [s EXCEPT !.board[target] = "None",
                                !.king_position =
                                    IF s.board[target] = "King" THEN {} ELSE @],
                      moved_to, n + 1)

check_captures(s, moved_to) == CapturesFrom(s, moved_to, 1)

check_game_end(s) ==
    IF s.king_position = {} THEN [s EXCEPT !.result = "AttackersWin"]
    ELSE IF \E king_pos \in s.king_position : is_corner(king_pos)
         THEN [s EXCEPT !.result = "DefendersWin"]
    ELSE IF legal_moves(s, opponent(s.current_player)) = <<>>
         THEN [s EXCEPT !.result = IF opponent(s.current_player) = "Attackers"
                                   THEN "DefendersWin" ELSE "AttackersWin"]
    ELSE s

check_threefold_repetition(s) ==
    IF s.result # "None" THEN s
    ELSE IF hash_position(s) \in DOMAIN s.position_history
            /\ s.position_history[hash_position(s)] >= 3
         THEN [s EXCEPT !.result = "AttackersWin"]
    ELSE s

\* make_move after the two tests: the piece is moved and the state updated.
MoveAccepted(s, mv) ==
    LET from == idx(mv[1], mv[2])
        to == idx(mv[3], mv[4])
        piece == s.board[from]
        moved == [s EXCEPT !.board = [@ EXCEPT ![from] = "None", ![to] = piece],
                           !.king_position = IF piece = "King" THEN {to} ELSE @]
        ended == check_game_end(check_captures(moved, to))
        switched == [ended EXCEPT !.current_player = opponent(@),
                                  !.move_count = @ + 1]
    IN  check_threefold_repetition(record_position(switched))

\* Mutant: the player is switched before the move is validated.
MakeMoveAmong_SwitchesFirst(s, mv, legal) ==
    IF is_game_over(s)
    THEN [state |-> [s EXCEPT !.current_player = opponent(@)], outcome |-> "GameOver"]
    ELSE IF mv \notin SeqRange(legal)
    THEN [state |-> [s EXCEPT !.current_player = opponent(@)], outcome |-> "InvalidMove"]
    ELSE [state |-> MoveAccepted(s, mv), outcome |-> "Ok"]

\* make_move, `legal` being legal_moves(current_player): the state after
\* the call and the Result, "Ok" or the error.
MakeMoveAmong(s, mv, legal) ==
    IF is_game_over(s) THEN [state |-> s, outcome |-> "GameOver"]
    ELSE IF mv \notin SeqRange(legal) THEN [state |-> s, outcome |-> "InvalidMove"]
    ELSE [state |-> MoveAccepted(s, mv), outcome |-> "Ok"]

make_move(s, mv) == MakeMoveAmong(s, mv, legal_moves(s, s.current_player))

\* Recorded games of the arena, played from GameState::new.
ArenaGames ==
    << \* the king reaches a corner
       << <<3, 1, 0, 1>>, <<3, 2, 1, 2>>, <<3, 0, 4, 0>>, <<3, 3, 3, 0>>, <<5, 3, 5, 0>>,
          <<3, 0, 0, 0>> >>,
       \* the king is captured between two attackers
       << <<1, 3, 1, 6>>, <<2, 3, 2, 0>>, <<1, 6, 2, 6>>, <<3, 3, 1, 3>>, <<2, 6, 2, 3>> >>,
       \* the king steps between two attackers and a third moves next to it
       << <<3, 6, 4, 6>>, <<2, 3, 2, 5>>, <<4, 6, 4, 4>>, <<3, 3, 2, 3>>, <<1, 3, 1, 1>>,
          <<2, 3, 2, 1>>, <<3, 0, 2, 0>> >>
    >>

\* The number of calls of make_move a run may make off its recorded game.
MaxFreeArena == 1

\* Moves a caller passes besides the moves of the pieces: a square off the
\* board, a move that stays in place, a jump from an empty square, a pawn's
\* move onto a corner.
OtherMoves == {<<0, 0, 7, 0>>, <<3, 3, 3, 3>>, <<0, 0, 0, 1>>, <<0, 3, 0, 0>>}

\* The next moves of the recorded games among `game`.
RecordMoves ==
    {ArenaGames[g][state.move_count + 1] :
        g \in {g \in game : state.move_count < Len(ArenaGames[g])}}

\* The moves passed to make_move: the next move of the record, and off the
\* record the moves of the pieces of either side, whether or not the game
\* is over, and the moves of OtherMoves.
Attempts ==
    IF free >= MaxFreeArena THEN RecordMoves
    ELSE SeqRange(MovesOfPlayer(state, 0, "Attackers"))
            \cup SeqRange(MovesOfPlayer(state, 0, "Defenders")) \cup OtherMoves

InitArena ==
    /\ state = new_brandubh
    /\ last = [pre |-> new_brandubh, move |-> <<>>, outcome |-> "None"]
    /\ free = 0
    /\ \E g \in 1..Len(ArenaGames) : game = {g}
    /\ engine = DefaultEngine
    /\ tlast = NoOperation
    /\ search = NoSearch

\* A caller (the arena's play loop with a bot's move, a test) calls
\* make_move.
MakeMove ==
    LET legal == legal_moves(state, state.current_player)
    IN  \E mv \in Attempts :
            LET made == MakeMoveAmong(state, mv, legal)
                recorded == made.outcome = "Ok" /\ mv \in RecordMoves
            IN  /\ state' = made.state
                /\ last' = [pre |-> state, move |-> mv, outcome |-> made.outcome]
                /\ free' = IF recorded THEN free ELSE free + 1
                /\ game' = IF made.outcome # "Ok" THEN game
                           ELSE {g \in game : /\ state.move_count < Len(ArenaGames[g])
                                              /\ ArenaGames[g][state.move_count + 1] = mv}
                /\ UNCHANGED <<engine, tlast, search>>

NextArena == MakeMove

SpecArena == InitArena /\ [][NextArena]_vars

\* make_move has been called.
MoveAttempted == last.outcome \in {"Ok", "GameOver", "InvalidMove"}

\* C22: make_move returns Err(GameOver) when the game has a result, and
\* Err(InvalidMove) when it has none and the move is not in
\* legal_moves(current_player); after either error the board, the player to
\* move, the move count, the result and the position history are what they
\* were before the call.
C22_RejectedMoveChangesNothing ==
    MoveAttempted =>
        /\ pre.result # "None" => last.outcome = "GameOver"
        /\ (pre.result = "None"
              /\ last.move \notin SeqRange(legal_moves(pre, pre.current_player)))
               => last.outcome = "InvalidMove"
        /\ last.outcome # "Ok" =>
              /\ state.board = pre.board
              /\ state.current_player = pre.current_player
              /\ state.move_count = pre.move_count
              /\ state.result = pre.result
              /\ state.position_history = pre.position_history
              /\ state.king_position = pre.king_position

\* make_move was called on a game that had a result.
C22_Witness == MoveAttempted /\ last.outcome = "GameOver" /\ pre.result # "None"

\* make_move was called with a move that is not legal for the player to
\* move, in a game without a result.
C22_InvalidWitness ==
    MoveAttempted /\ last.outcome = "InvalidMove" /\ pre.result = "None"
\* ------------------------------------------------------------------------
\* A parallel batch (mcts.rs, selection's expansion and simulation_parallel)
\* ------------------------------------------------------------------------
\* The positions a batch is run at: the moves played from GameState::new to
\* the parent, the move of the child that is expanded, the simulation type.
BatchRoots ==
    << \* the child: White to move, the king can step between two attackers
       [moves |-> << <<1, 3, 1, 6>>, <<2, 3, 2, 0>> >>,
        child |-> <<1, 6, 2, 6>>,
        sim_type |-> ParallelLight(WordOf(2))],
       [moves |-> << <<1, 3, 1, 6>>, <<2, 3, 2, 0>> >>,
        child |-> <<1, 6, 2, 6>>,
        sim_type |-> ParallelHeavy(WordOf(3))],
       \* the child: Black to move, the king on an edge with a corner in reach
       [moves |-> << <<3, 1, 0, 1>>, <<3, 2, 1, 2>>, <<3, 0, 4, 0>> >>,
        child |-> <<3, 3, 3, 0>>,
        sim_type |-> ParallelHeavy(WordOf(2))],
       \* the child: White to move and heuristic_wins_w holds
       [moves |-> << <<3, 1, 0, 1>>, <<3, 2, 1, 2>>, <<3, 0, 4, 0>>, <<3, 3, 3, 0>> >>,
        child |-> <<5, 3, 5, 0>>,
        sim_type |-> ParallelLight(WordOf(2))]
    >>

\* The number of random moves of a playout the model follows; what the
\* playout returns after them is any result.
MaxPlayoutPlies == 2

\* The moves the random choice of a playout is taken from, when legal.
PlayoutPicks ==
    {<<3, 3, 1, 3>>, <<3, 4, 2, 4>>, <<2, 6, 2, 3>>, <<0, 3, 0, 2>>,
     <<5, 3, 5, 0>>, <<3, 0, 0, 0>>}

PlayoutMoves(t) == SeqRange(get_legal_moves(t, TRUE)) \cap PlayoutPicks

\* One turn of the loop of simulation and simulation_hard, for the state the
\* playout was started on and its temp_state: the results the call returns
\* in this turn, none when the playout goes on with a random move.
SimulationTurn(s, t, plies) ==
    LET winner == check_game_over(t)
    IN  IF winner # "None"
        THEN {IF winner = "D" THEN DRAW ELSE IF winner = s.player THEN WIN ELSE LOSS}
        ELSE IF heuristic_wins_w(s) THEN {IF s.player = "W" THEN WIN ELSE LOSS}
        ELSE IF s.player = "B" /\ heuristic_capture_king(s) # {} THEN {WIN}
        ELSE IF get_legal_moves(t, TRUE) = <<>>
        THEN {IF s.player = t.player THEN LOSS ELSE WIN}
        ELSE IF plies < MaxPlayoutPlies /\ PlayoutMoves(t) # {} THEN {}
        ELSE {WIN, LOSS, DRAW}

\* Mutant: the reduction keeps the later of two partial sums.
Sum_KeepsLast(a, b) == b

\* .sum() of the parallel iterator: two partial sums are added.
Sum(a, b) == Add64(a, b)

NoBatch ==
    [phase |-> "idle", next_state |-> new, selected_hash |-> {},
     added |-> DefaultEngine, workers |-> <<>>, partial |-> {}]

RECURSIVE PlayedFrom(_, _, _)
\* The GameState after move_piece was called with moves[i..].
PlayedFrom(s, moves, i) ==
    IF i > Len(moves) THEN s ELSE PlayedFrom(move_piece(s, moves[i]), moves, i + 1)

InitBatch ==
    /\ \E g \in 1..Len(BatchRoots) :
        /\ game = {g}
        /\ state = PlayedFrom(new, BatchRoots[g].moves, 1)
        /\ engine = increase_generation(MCTS_new(8, BatchRoots[g].sim_type))
    /\ last = [pre |-> new, move |-> <<>>]
    /\ free = 0
    /\ tlast = NoOperation
    /\ search = NoBatch

\* selection at the parent, from the choice of an unvisited child to the
\* call of simulation_parallel: the child's state is made, add_entry and
\* the counters are done, the batch_size playouts are spawned.
ExpandBatch ==
    /\ search.phase = "idle"
    /\ \E g \in game :
        LET m == BatchRoots[g].child
            verdict == Verdict(state)
            next_state == move_piece(state, m)
            selected_hash == HashWord(next_hash(state, m))
            added == AddToTable(engine, selected_hash)
        IN  /\ \A e \in Probe(engine, HashWord(state.hash)) : ~IsSolved(e)
            /\ TerminalScore(state, verdict, {0}, Neg64({0}), {}) = {}
            /\ m \in SeqRange(get_legal_moves(state, TRUE))
            /\ \A e \in Probe(engine, selected_hash) : get_n_visits(e) = {}
            /\ engine' = added
            /\ search' = [phase |-> "running", next_state |-> next_state,
                          selected_hash |-> selected_hash, added |-> added,
                          workers |-> [w \in 1..NatOf(get_batch_size(engine)) |->
                                        [temp_state |-> next_state, plies |-> 0,
                                         done |-> FALSE, result |-> DRAW]],
                          partial |-> {}]
    /\ UNCHANGED <<state, last, game, free, tlast>>

\* A worker's playout plays a random move on its temp_state.
PlayoutMove ==
    /\ search.phase = "running"
    /\ \E w \in DOMAIN search.workers :
        LET worker == search.workers[w]
        IN  /\ ~worker.done
            /\ SimulationTurn(search.next_state, worker.temp_state, worker.plies) = {}
            /\ \E m \in PlayoutMoves(worker.temp_state) :
                search' = [search EXCEPT !.workers[w].temp_state = move_piece(@, m),
                                         !.workers[w].plies = @ + 1]
    /\ UNCHANGED <<state, last, game, free, engine, tlast>>

\* A worker's playout returns and drops its temp_state: its result is a
\* partial sum of the batch.
PlayoutReturn ==
    /\ search.phase = "running"
    /\ \E w \in DOMAIN search.workers :
        LET worker == search.workers[w]
        IN  /\ ~worker.done
            /\ \E r \in SimulationTurn(search.next_state, worker.temp_state, worker.plies) :
                search' = [search EXCEPT !.workers[w].done = TRUE,
                                         !.workers[w].temp_state = search.next_state,
                                         !.workers[w].result = r,
                                         !.partial = @ \cup {[of |-> {w}, sum |-> Scaled(r, {0})]}]
    /\ UNCHANGED <<state, last, game, free, engine, tlast>>

\* Two partial sums are reduced to one, in either order.
Reduce ==
    /\ search.phase = "running"
    /\ \E a \in search.partial : \E b \in search.partial \ {a} :
        search' = [search EXCEPT !.partial =
                      (@ \ {a, b}) \cup {[of |-> a.of \cup b.of, sum |-> Sum(a.sum, b.sum)]}]
    /\ UNCHANGED <<state, last, game, free, engine, tlast>>

\* simulation_parallel returns the total and selection backpropagates it to
\* the child's entry.
BackpropagateBatch ==
    /\ search.phase = "running"
    /\ \E total \in search.partial :
        /\ total.of = DOMAIN search.workers
        /\ engine' = Backpropagate(engine, search.selected_hash, total.sum)
        /\ search' = [search EXCEPT !.phase = "backpropagated"]
    /\ UNCHANGED <<state, last, game, free, tlast>>

NextBatch == ExpandBatch \/ PlayoutMove \/ PlayoutReturn \/ Reduce \/ BackpropagateBatch

SpecBatch == InitBatch /\ [][NextBatch]_vars

RECURSIVE ResultsOfFirst(_, _)
\* The sum of the results of the workers 1..k, taken in that order.
ResultsOfFirst(workers, k) ==
    IF k = 0 THEN {}
    ELSE Add64(ResultsOfFirst(workers, k - 1), Scaled(workers[k].result, {0}))

\* C21: while the playouts of a batch run, the engine is what the expansion's
\* add_entry left and each playout's temp_state is a continuation of the
\* expanded state by its own moves; the backpropagation that follows leaves
\* the engine that results from adding batch_size visits and the sum of the
\* playouts' results to the child's entry, whatever the order in which the
\* playouts returned and were reduced.
C21_BatchBackpropagatedOnce ==
    LET workers == search.workers
        batch_size == get_batch_size(search.added)
    IN  /\ search.phase = "running" =>
            /\ engine = search.added
            /\ \A w \in DOMAIN workers :
                workers[w].temp_state.ply_count
                    = search.next_state.ply_count
                        + (IF workers[w].done THEN 0 ELSE workers[w].plies)
        /\ search.phase = "backpropagated" =>
            /\ engine = Backpropagate(search.added, search.selected_hash,
                                      ResultsOfFirst(workers, Len(workers)))
            /\ \A e \in Probe(search.added, search.selected_hash) :
               \E f \in Probe(engine, search.selected_hash) :
                    /\ get_n_visits(f) = Add64(get_n_visits(e), batch_size)
                    /\ get_n_wins(f) = Add64(get_n_wins(e),
                                             ResultsOfFirst(workers, Len(workers)))
            /\ Probe(search.added, search.selected_hash) # {}

\* A batch of three playouts was backpropagated whose first and third
\* results differ and whose second playout played MaxPlayoutPlies moves and
\* returned LOSS.
C21_Witness ==
    /\ search.phase = "backpropagated"
    /\ Len(search.workers) = 3
    /\ search.workers[1].result # search.workers[3].result
    /\ search.workers[2].result = LOSS
    /\ search.workers[2].plies = MaxPlayoutPlies

\* A batch was backpropagated whose playouts all returned in their first
\* turn, by heuristic_wins_w of the expanded state.
C21_HeuristicWitness ==
    /\ search.phase = "backpropagated"
    /\ heuristic_wins_w(search.next_state)
    /\ \A w \in DOMAIN search.workers : search.workers[w].result = WIN


\* The mover of t has an instant win: heuristic_wins_w for the defenders,
\* heuristic_capture_king for the attackers.
InstantWinOf(t) ==
    IF t.player = "W" THEN heuristic_wins_w(t) ELSE heuristic_capture_king(t) # {}

\* The result, for the player of s, of a playout the mover of t wins.
WonByMoverOf(s, t) == IF s.player = t.player THEN WIN ELSE LOSS

\* C32: in every turn of a playout's loop, when the game is not over at the
\* playout's current position and the mover of that position has an instant
\* win by the heuristics, the playout returns in that turn with that side
\* winning.
C32_InstantWinEndsPlayout ==
    search.phase = "running" =>
        \A w \in DOMAIN search.workers :
            LET worker == search.workers[w]
            IN  (/\ ~worker.done
                 /\ check_game_over(worker.temp_state) = "None"
                 /\ InstantWinOf(worker.temp_state))
                => SimulationTurn(search.next_state, worker.temp_state, worker.plies)
                     = {WonByMoverOf(search.next_state, worker.temp_state)}

\* The same of the first turn, where the current position is the position
\* the playout was started on.
C32_InstantWinEndsPlayoutAtStart ==
    search.phase = "running" =>
        \A w \in DOMAIN search.workers :
            LET worker == search.workers[w]
            IN  (/\ ~worker.done
                 /\ worker.plies = 0
                 /\ check_game_over(worker.temp_state) = "None"
                 /\ InstantWinOf(worker.temp_state))
                => SimulationTurn(search.next_state, worker.temp_state, worker.plies)
                     = {WonByMoverOf(search.next_state, worker.temp_state)}

\* A playout is in its first turn on a position whose mover has an instant
\* win.
C32_StartWitness ==
    /\ search.phase = "running"
    /\ \E w \in DOMAIN search.workers :
        /\ ~search.workers[w].done
        /\ search.workers[w].plies = 0
        /\ InstantWinOf(search.workers[w].temp_state)

\* A playout has played a move after which the mover has an instant win, and
\* it goes on with a random move.
C32_PlayoutPlaysOn ==
    /\ search.phase = "running"
    /\ \E w \in DOMAIN search.workers :
        LET worker == search.workers[w]
        IN  /\ ~worker.done
            /\ worker.plies > 0
            /\ check_game_over(worker.temp_state) = "None"
            /\ InstantWinOf(worker.temp_state)
            /\ SimulationTurn(search.next_state, worker.temp_state, worker.plies) = {}

\* C33: a state whose game is not over (check_game_over gives None) has
\* fewer than MAX_GAME_LENGTH plies behind it.
C33_GameEndsWithinCap ==
    check_game_over(state) = "None" => state.ply_count < MAX_GAME_LENGTH

\* While the history has room, a move that produces a configuration of the
\* history ends the game.
C33_RepetitionEndsGameBelowCapacity ==
    (Moved /\ history_len(pre) < MAX_GAME_LENGTH /\ ResultInHistory)
        => check_game_over(state) # "None"

\* A game of MAX_GAME_LENGTH plies or more is not over.
C33_PlayedBeyondCap ==
    /\ Moved
    /\ state.ply_count >= MAX_GAME_LENGTH
    /\ check_game_over(state) = "None"
    /\ get_legal_moves(state, TRUE) # <<>>

\* The operations of the script the run follows, while it has applied no
\* operation off it.
ScriptOps == TTScripts[CHOOSE g \in game : TRUE].ops

\* The number of the last increase_generation among the first n operations
\* of the script (0: none).
DecisionStart(n) ==
    LET starts == {i \in 1..n : ScriptOps[i] = OpIncrease}
    IN  IF starts = {} THEN 0 ELSE SetMax(starts)

\* The entry e was in the bucket before the last operation and its
\* generation was set in the current move decision: an operation since the
\* last increase_generation added, refreshed or updated the entry of its
\* hash.
SetThisDecision(e) ==
    \E i \in (DecisionStart(tlast.n - 1) + 1)..(tlast.n - 1) :
        /\ ScriptOps[i][1] \in {"add_entry", "backpropagate", "mark_terminal", "return"}
        /\ hash_equals(e, ScriptOps[i][2])

\* The entries of other hashes the last operation replaced.
Evicted ==
    {i \in Changed : ~is_empty(BucketBefore[i]) /\ ~hash_equals(BucketBefore[i], OpHash)}

\* The last operation added an entry and add_entry returned OverwrittenOUT.
StaleEviction ==
    /\ free = 0
    /\ tlast.op # <<>>
    /\ tlast.op[1] \in {"add_entry", "mark_terminal"}
    /\ AddReturned = "OverwrittenOUT"

\* C34: generation_bound is max(0, generation - generation_range), and an
\* add_entry that replaces an entry as stale (OverwrittenOUT) replaces no
\* entry whose generation was set in the current move decision.
C34_NoFreshEntryEvictedAsStale ==
    /\ engine.generation_bound
         = (IF engine.generation > engine.generation_range
            THEN engine.generation - engine.generation_range ELSE 0)
    /\ StaleEviction => \A i \in Evicted : ~SetThisDecision(BucketBefore[i])

\* The same while the generation fits the GEN_BITS bits of the field.
C34_NoFreshEntryEvictedAsStaleInRange ==
    /\ engine.generation_bound
         = (IF engine.generation > engine.generation_range
            THEN engine.generation - engine.generation_range ELSE 0)
    /\ (StaleEviction /\ engine.generation < 2 ^ GEN_BITS)
          => \A i \in Evicted : ~SetThisDecision(BucketBefore[i])

\* A stale entry of an earlier decision was replaced while the bucket held
\* an entry of the current decision.
C34_StaleWitness ==
    /\ StaleEviction
    /\ engine.generation < 2 ^ GEN_BITS
    /\ Evicted # {}
    /\ \E i \in Slots \ Evicted : SetThisDecision(BucketBefore[i])

\* An entry set in the current decision was replaced as stale.
C34_FreshEvicted ==
    /\ StaleEviction
    /\ \E i \in Evicted : SetThisDecision(BucketBefore[i])

\* The sign of the score of an entry.
ScoreSign(e) ==
    IF IsPositive(get_n_wins(e)) THEN 1 ELSE IF IsNegative(get_n_wins(e)) THEN 0 - 1 ELSE 0

\* Every solved entry of `before` whose key is in `after` is solved there
\* with a score of the same sign.
SolvedKept(before, after) ==
    \A b \in DOMAIN before.transpositions : \A i \in 1..BUCKET_ENTRIES :
        LET e == before.transpositions[b][i]
        IN  (~is_empty(e) /\ IsSolved(e)) =>
                \A j \in 1..BUCKET_ENTRIES :
                    LET f == get_bucket(after.transpositions, b)[j]
                    IN  (~is_empty(f) /\ f \cap HASH_MASK = e \cap HASH_MASK)
                            => (IsSolved(f) /\ ScoreSign(f) = ScoreSign(e))

\* start_search has left its loop and writes the root's counts back.
WritingBack == search.phase = "searching" /\ search.passes = 0

\* C35: no step of a move decision takes a solved entry whose key stays in
\* the table below SOLVED_THRESHOLD visits or changes the sign of its score.
C35_SolvedStaysSolved == [][SolvedKept(engine, engine')]_vars

\* The same of the steps other than the write-back of the root's counts at
\* the end of start_search.
C35_SolvedStaysSolvedInPasses == [][~WritingBack => SolvedKept(engine, engine')]_vars

\* A pass went through a node that was solved before and is after it.
C35_KeptWitness ==
    /\ search.phase = "searching"
    /\ search.leaf.kind = "solved"
    /\ \E e \in Probe(engine, search.leaf.node) : IsSolved(e)

\* The search is over, its last pass found the root solved, and the root's
\* entry has fewer than SOLVED_THRESHOLD visits.
C35_RootMarkLost ==
    /\ search.phase = "returned"
    /\ ~search.instant
    /\ search.leaf.kind = "solved"
    /\ search.leaf.node = HashWord(state.hash)
    /\ \E e \in Probe(engine, HashWord(state.hash)) : ~IsSolved(e)

RECURSIVE ChoiceFollowed(_, _, _, _, _)
\* The nodes k.. of the trail of a pass chose their child as claimed, s being
\* the state of node k and self the engine the pass started with (nothing
\* is written on the way down): with an unvisited child among the children
\* of get_legal_moves(.., true), the child chosen is unvisited and is where
\* the pass expands and plays out; with none, the child chosen is a visited
\* child and the pass goes on inside it.
ChoiceFollowed(self, s, trail, k, leaf) ==
    IF k > Len(trail) THEN TRUE
    ELSE LET moves == get_legal_moves(s, TRUE)
             child_hash == ChildHashes(s, moves)
             unvisited == {n \in DOMAIN child_hash :
                             \A e \in Probe(self, child_hash[n]) : get_n_visits(e) = {}}
             chosen == {n \in DOMAIN child_hash : child_hash[n] = trail[k].child}
         IN  IF unvisited # {}
             THEN /\ chosen \cap unvisited # {}
                  /\ k = Len(trail)
                  /\ leaf = Playout(trail[k].child)
             ELSE /\ chosen # {}
                  /\ leaf.kind # "playout" \/ k < Len(trail)
                  /\ \E n \in chosen :
                        ChoiceFollowed(self, move_piece(s, moves[n]), trail, k + 1, leaf)

\* start_search is in its loop: the next step is a selection pass.
InLoop == search.phase = "searching" /\ search.passes > 0

\* C31: in a selection pass, every node that selects a child selects an
\* unvisited child (no entry, or an entry with no visits) and expands it
\* when it has one, and selects a visited child only when all its children
\* are visited.
C31_UnvisitedChildFirst ==
    [][InLoop => ChoiceFollowed(engine, state, search'.trail, 1, search'.leaf)]_vars

\* A pass expanded a child of the root while another child of the root had
\* visits.
C31_Witness ==
    /\ search.phase = "searching"
    /\ Len(search.trail) = 1
    /\ search.leaf.kind = "playout"
    /\ LET child_hash == ChildHashes(state, get_legal_moves(state, TRUE))
       IN  \E n \in DOMAIN child_hash :
              /\ child_hash[n] # search.leaf.node
              /\ \E e \in Probe(engine, child_hash[n]) : get_n_visits(e) # {}

\* A pass went into a visited child of the root.
C31_VisitedWitness ==
    /\ search.phase = "searching"
    /\ Len(search.trail) >= 1
    /\ search.leaf.kind \in {"solved", "terminal", "repetition", "no_moves"}

\* The absolute value of an isize.
AbsWord(w) == IF IsNegative(w) THEN Neg64(w) ELSE w

\* a <= b, unsigned
BitLeq(a, b) == ~BitLess(b, a)

\* The entries of the table.
TableEntries(self) ==
    {self.transpositions[b][i] : b \in DOMAIN self.transpositions, i \in 1..BUCKET_ENTRIES}

\* Every entry has a score of absolute value at most its visit count.
ScoresWithinVisits(self) ==
    \A e \in TableEntries(self) :
        ~is_empty(e) => BitLeq(AbsWord(get_n_wins(e)), get_n_visits(e))

\* What the nodes of the last pass got from their child and returned is at
\* most batch_size in absolute value.
ResultsWithinBatch ==
    \A frame \in Frames :
        /\ BitLeq(AbsWord(frame.child_result), get_batch_size(engine))
        /\ BitLeq(AbsWord(frame.result), get_batch_size(engine))

\* C36: every value a selection pass or a playout batch returned is at most
\* batch_size in absolute value, and every entry of the table has a score
\* of absolute value at most its visit count.
C36_ScoreWithinVisits == ResultsWithinBatch /\ ScoresWithinVisits(engine)

\* The same for batches of fewer than 2^13 playouts.
C36_ScoreWithinVisitsSmallBatch ==
    BitLess(get_batch_size(engine), {13})
        => (ResultsWithinBatch /\ ScoresWithinVisits(engine))

\* An entry with visits and a negative score, after a pass that returned.
C36_SmallBatchWitness ==
    /\ BitLess(get_batch_size(engine), {13})
    /\ Frames # {}
    /\ \E e \in TableEntries(engine) :
          /\ ~is_empty(e)
          /\ IsNegative(get_n_wins(e))
          /\ BitLess({0}, get_n_visits(e))

\* An entry whose score exceeds its visit count.
C36_ScoreAboveVisits ==
    \E e \in TableEntries(engine) :
        ~is_empty(e) /\ BitLess(get_n_visits(e), AbsWord(get_n_wins(e)))

\* ------------------------------------------------------------------------
\* C37: the bot's GameState against the arena's in a match
\* ------------------------------------------------------------------------
\* A match: `state` is the bot's GameState, `tlast` the arena's, `game` the
\* record from which the other bot's moves are taken.
InitMatch ==
    /\ last = [pre |-> new, move |-> <<>>]
    /\ free = 0
    /\ \E g \in 1..Len(SearchGames) :
        /\ game = {g}
        /\ state = game_start(new, SearchGames[g].player)
        /\ engine = SearchGames[g].engine
    /\ tlast = new_brandubh
    /\ search = NoSearch

\* Match::handle_move_result on a move of the record: make_move plays it on
\* the arena's state and notify_move reports it to the bot, whose
\* notify_move calls move_piece.
MatchNotify ==
    /\ search.phase = "idle"
    /\ \E g \in game :
        /\ state.ply_count < Len(SearchGames[g].moves)
        /\ LET mv == SearchGames[g].moves[state.ply_count + 1]
               made == make_move(tlast, mv)
           IN  /\ made.outcome = "Ok"
               /\ tlast' = made.state
               /\ state' = move_piece(state, mv)
               /\ last' = [pre |-> state, move |-> mv]
    /\ UNCHANGED <<game, free, engine, search>>

\* Match::handle_move_result on the move the bot returned: make_move plays
\* it on the arena's state and notify_move reports it to both bots, the one
\* that returned it included.
NotifyOwnMove ==
    /\ search.phase = "moved"
    /\ LET made == make_move(tlast, last.move)
       IN  /\ made.outcome = "Ok"
           /\ tlast' = made.state
    /\ state' = move_piece(state, last.move)
    /\ last' = [pre |-> state, move |-> last.move]
    /\ search' = [search EXCEPT !.phase = "notified"]
    /\ UNCHANGED <<game, free, engine>>

NextMatch ==
    \/ MatchNotify
    \/ GetMoveInstant
    \/ StartSearch
    \/ SelectionPass
    \/ FinishSearch
    \/ ComputerMove
    \/ NotifyOwnMove

SpecMatch == InitMatch /\ [][NextMatch]_vars

\* The squares of the arena's board that hold a piece of the kind.
ArenaSquares(a, kind) == {pos \in DOMAIN a.board : a.board[pos] = kind}

\* The bot's attacker, defender and king sets are those of the arena's board.
BoardAgrees(s, a) ==
    /\ s.black_pieces = ArenaSquares(a, "Attacker")
    /\ s.white_pieces = ArenaSquares(a, "Defender")
    /\ s.king_piece = ArenaSquares(a, "King")

\* The bot's GameState shows the arena's board and side to move.
AgreesWithArena(s, a) ==
    /\ BoardAgrees(s, a)
    /\ s.player = (IF a.current_player = "Attackers" THEN "B" ELSE "W")

\* notify_move has just returned.
Notified == Moved /\ search.phase \in {"idle", "notified"}

\* C37: after each notify_move the bot's attacker, defender and king sets
\* and its side to move equal the arena's, every move being applied once.
C37_BotBoardFollowsArena == Notified => AgreesWithArena(state, tlast)

\* C37, the board alone and the moves of the other bot only: after
\* notify_move of a move the bot did not play itself its piece sets equal
\* the arena's.
C37_BoardFollowsArenaOnReportedMoves ==
    Notified /\ search.phase = "idle" => BoardAgrees(state, tlast)

\* C37: a move of the other bot was reported; the boards agree, the bot
\* playing the defenders has the attackers to move and the arena the
\* defenders.
C37_ReportedWitness ==
    /\ game = {11}
    /\ search.phase = "idle"
    /\ state.ply_count = 1
    /\ BoardAgrees(state, tlast)
    /\ tlast.current_player = "Defenders"
    /\ state.player = "B"

\* C37: the bot's own move is applied by computer_move and again by
\* notify_move; the ply counter is two ahead of the record while the arena
\* counts one move, and the bot has itself to move.
C37_OwnMoveAppliedTwice ==
    /\ game = {11}
    /\ search.phase = "notified"
    /\ state.ply_count = 3
    /\ tlast.move_count = 2
    /\ tlast.current_player = "Attackers"
    /\ state.player = "W"
    /\ state.repetition

\* ------------------------------------------------------------------------
\* C38: the bot's legal moves against the arena's
\* ------------------------------------------------------------------------
\* get_legal_moves(&mut moves, false) of the bot's GameState once get_move
\* has set its player from the arena's state.
BotMoves == SeqRange(get_legal_moves(WithArenaPlayer(state), FALSE))

\* legal_moves(current_player) of the arena's GameState.
ArenaMoves == SeqRange(legal_moves(tlast, tlast.current_player))

\* The move passes over the central square without stopping on it.
CrossesThrone(m) ==
    LET throne == BRANDUBH_SIZE \div 2
    IN  \/ /\ m[2] = throne /\ m[4] = throne
           /\ ((m[1] < throne /\ throne < m[3]) \/ (m[3] < throne /\ throne < m[1]))
        \/ /\ m[1] = throne /\ m[3] = throne
           /\ ((m[2] < throne /\ throne < m[4]) \/ (m[4] < throne /\ throne < m[2]))

\* The arena's game goes on and the bot's GameState shows the arena's board.
InMatchPosition ==
    /\ search.phase = "idle"
    /\ tlast.result = "None"
    /\ BoardAgrees(state, tlast)

\* C38: in every position of a match the bot's unsuppressed legal moves are
\* the arena's legal moves of the side to move.
C38_LegalMovesEqual == InMatchPosition => BotMoves = ArenaMoves

\* C38, without the moves over the throne: the bot's other legal moves are
\* the arena's legal moves, and every move of the arena is one of the bot's.
C38_LegalMovesEqualOffThrone ==
    InMatchPosition =>
        /\ ArenaMoves \subseteq BotMoves
        /\ \A m \in BotMoves \ ArenaMoves : CrossesThrone(m)

\* C38: a position in which the two sets are equal, the king off the throne.
C38_EqualWitness ==
    /\ InMatchPosition
    /\ Moved
    /\ state.king_piece # InitialKing
    /\ BotMoves = ArenaMoves

\* C38: the bot has a legal move over the empty throne that the arena does
\* not have.
C38_ThroneCrossed ==
    /\ InMatchPosition
    /\ \E m \in BotMoves \ ArenaMoves : CrossesThrone(m)

\* C38: get_move has returned a move that the arena's make_move rejects.
C38_ReturnedMoveRejected ==
    /\ search.phase = "moved"
    /\ make_move(tlast, last.move).outcome = "InvalidMove"
    /\ CrossesThrone(last.move)

\* ------------------------------------------------------------------------
\* C39: the slots of a bucket
\* ------------------------------------------------------------------------
\* No two non-empty entries of the bucket carry the same tag.
DistinctTags(entries) ==
    \A i, j \in Slots :
        (/\ i # j
         /\ ~is_empty(entries[i])
         /\ ~is_empty(entries[j])) => entries[i] \cap HASH_MASK # entries[j] \cap HASH_MASK

\* The non-empty slots of the bucket are its first ones.
FilledPrefix(entries) ==
    \A i, j \in Slots : (i < j /\ ~is_empty(entries[j])) => ~is_empty(entries[i])

\* No slot of a bucket of `before` that is not empty is empty in `after`.
StaysWritten(before, after) ==
    \A b \in DOMAIN before.transpositions :
        \A i \in Slots :
            ~is_empty(before.transpositions[b][i])
                => ~is_empty(get_bucket(after.transpositions, b)[i])

\* The engine's generation is one that increase_generation hands out.
EngineGeneration == 1 <= engine.generation /\ engine.generation < MAX_GEN

\* add_entry has just been called on an empty slot or replaced an entry.
SlotWritten ==
    /\ tlast.op # <<>>
    /\ tlast.op[1] = "add_entry"
    /\ AddReturned \in {"EmptyEntry", "OverwrittenIN", "OverwrittenOUT"}

\* C39: in every bucket no two non-empty entries carry the same tag, the
\* non-empty slots form a prefix, and the slot add_entry has written does
\* not read as empty.
C39_BucketSlotsWellFormed ==
    EngineGeneration =>
        /\ \A b \in DOMAIN engine.transpositions :
            /\ DistinctTags(engine.transpositions[b])
            /\ FilledPrefix(engine.transpositions[b])
        /\ SlotWritten => Matching(get_bucket(engine.transpositions, OpHash), OpHash) # {}

\* C39, as a step: a slot that is not empty is not empty after any
\* operation.
C39_WrittenSlotStaysWritten == [][StaysWritten(engine, engine')]_vars

\* C39, the generations below 2^GEN_BITS: the same as long as the engine's
\* generation fits its field in the entry.
C39_BucketSlotsWellFormedInRange ==
    (EngineGeneration /\ engine.generation < 2 ^ GEN_BITS) =>
        /\ \A b \in DOMAIN engine.transpositions :
            /\ DistinctTags(engine.transpositions[b])
            /\ FilledPrefix(engine.transpositions[b])
        /\ SlotWritten => Matching(get_bucket(engine.transpositions, OpHash), OpHash) # {}

\* C39: a full bucket of four different tags, one of them written by an
\* eviction, at a generation below 2^GEN_BITS.
C39_FullBucketWitness ==
    /\ EngineGeneration
    /\ engine.generation < 2 ^ GEN_BITS
    /\ SlotWritten
    /\ AddReturned \in {"OverwrittenIN", "OverwrittenOUT"}
    /\ EmptySlots(get_bucket(engine.transpositions, OpHash)) = {}
    /\ DistinctTags(get_bucket(engine.transpositions, OpHash))

\* C39: add_entry has written a slot that reads as empty.
C39_WrittenSlotEmpty ==
    /\ EngineGeneration
    /\ SlotWritten
    /\ Matching(get_bucket(engine.transpositions, OpHash), OpHash) = {}

\* C39: an empty slot lies before a non-empty one.
C39_GapInBucket ==
    /\ EngineGeneration
    /\ \E b \in DOMAIN engine.transpositions : ~FilledPrefix(engine.transpositions[b])

\* C39: two non-empty entries of a bucket carry the same tag.
C39_DuplicateTag ==
    /\ EngineGeneration
    /\ \E b \in DOMAIN engine.transpositions : ~DistinctTags(engine.transpositions[b])

\* ------------------------------------------------------------------------
\* C40: the history of configurations
\* ------------------------------------------------------------------------
\* history[0..history_len] is strictly increasing in the order of the
\* binary search: attackers, then defenders, then king.
HistorySorted(s) ==
    \A n \in 1..(Len(s.history) - 1) : EntryLess(s.history[n], s.history[n + 1])

\* No two entries of the history hold the same configuration.
HistoryDistinct(s) ==
    \A n, m \in 1..Len(s.history) :
        n # m => ~EntryEqual(s.history[n], s.history[m])

\* Every entry of the history of `before` is an entry of the history of
\* `after`, with the ply it was stored with.
HistoryKept(before, after) ==
    \A n \in 1..Len(before.history) :
        \E m \in 1..Len(after.history) : after.history[m] = before.history[n]

C40_HistorySortedToCapacity ==
    /\ HistorySorted(state)
    /\ history_len(state) <= MAX_GAME_LENGTH
    /\ (Moved /\ history_len(pre) < MAX_GAME_LENGTH) =>
        /\ HistoryKept(pre, state)
        /\ binary_search_is_ok(state.history, Boards(state))

C40_RepeatedWitness ==
    /\ Moved
    /\ ResultInHistory
    /\ state.repetition
    /\ state.history = pre.history
    /\ history_len(state) >= 3

\* C40: the history has MAX_GAME_LENGTH entries.
C40_FullWitness ==
    /\ Moved
    /\ history_len(state) = MAX_GAME_LENGTH
    /\ HistorySorted(state)
=============================================================================
